---- MODULE Spec2Model ----
(***************************************************************************)
(* ReasonEval: the extraction-and-scoring pipeline of the /evaluate        *)
(* request handler (src/app.py) and the pure functions it calls            *)
(* (src/modules/reasoning_parser.py, evaluator.py, scorer.py).             *)
(*                                                                         *)
(* Text is modelled character by character: a Python str is a sequence of  *)
(* one-character strings, so that substring tests, str.strip and the       *)
(* regular expressions act on the same data as in the code.                *)
(***************************************************************************)
EXTENDS Integers, Sequences, FiniteSets, TLC

VARIABLES
    pc,                  \* position of the handler / of the function under call
    question,            \* app.py:43   question
    llm_result,          \* app.py:46   llm_result
    raw_response,        \* app.py:54   raw_response
    parsed,              \* app.py:57   parsed (a dict, or None)
    answer,              \* app.py:58   answer
    reasoning,           \* app.py:59   reasoning
    steps,               \* app.py:62   steps
    evaluation_results,  \* app.py:65   evaluation_results
    scores,              \* app.py:68   scores
    verdict,             \* app.py:71   verdict
    overall_score,       \* app.py:72   overall_score
    detected_issues,     \* app.py:75   detected_issues
    log,                 \* logs/evaluations.csv, the rows log_evaluation wrote
    response,            \* the HTTP response of the request
    writers              \* the concurrent calls of log_evaluation, each with its
                         \* position and its data; <<>> when the calls are serial

vars == <<pc, question, llm_result, raw_response, parsed, answer, reasoning, steps,
          evaluation_results, scores, verdict, overall_score, detected_issues,
          log, response, writers>>

(***************************************************************************)
(* Characters and Python's str primitives                                  *)
(***************************************************************************)

\* Python's None, and the value of a local that has not been assigned yet.
None == [none |-> TRUE]
Unset == [unset |-> TRUE]

\* \s of the re module, restricted to the characters the inputs use.
Whitespace == {" ", "\n", "\t"}

\* \d of the re module.
Digits == {"0", "1", "2", "3", "4", "5", "6", "7", "8", "9"}

UpperLetters ==
    <<"A", "B", "C", "D", "E", "F", "G", "H", "I", "J", "K", "L", "M",
      "N", "O", "P", "Q", "R", "S", "T", "U", "V", "W", "X", "Y", "Z">>

LowerLetters ==
    <<"a", "b", "c", "d", "e", "f", "g", "h", "i", "j", "k", "l", "m",
      "n", "o", "p", "q", "r", "s", "t", "u", "v", "w", "x", "y", "z">>

UpperSet == {UpperLetters[i] : i \in 1..26}
LowerSet == {LowerLetters[i] : i \in 1..26}

\* \w of the re module.
WordChars == UpperSet \cup LowerSet \cup Digits \cup {"_"}

LowerMap ==
    [c \in UpperSet |-> LowerLetters[CHOOSE i \in 1..26 : UpperLetters[i] = c]]

\* str.lower() on one character.
LowerChar(c) == IF c \in UpperSet THEN LowerMap[c] ELSE c

\* str.lower()
lower(s) == [i \in 1..Len(s) |-> LowerChar(s[i])]

Min(S) == CHOOSE x \in S : \A y \in S : x <= y
Max(S) == CHOOSE x \in S : \A y \in S : x >= y

\* s[a-1:b] of Python with 1-based inclusive bounds; empty when a > b.
Slice(s, a, b) == IF a > b THEN <<>> ELSE SubSeq(s, a, b)

\* str.strip()
strip(s) ==
    LET keep == {i \in 1..Len(s) : s[i] \notin Whitespace}
    IN  IF keep = {} THEN <<>> ELSE SubSeq(s, Min(keep), Max(keep))

\* `not s or not s.strip()`
IsBlank(s) == \A i \in 1..Len(s) : s[i] \in Whitespace

\* The literal lit occurs in s at position i.
StartsAt(s, i, lit) ==
    /\ i >= 1
    /\ i + Len(lit) - 1 <= Len(s)
    /\ \A j \in 1..Len(lit) : s[i + j - 1] = lit[j]

\* The same under re.IGNORECASE; lit is given in lower case.
StartsAtCI(s, i, lit) ==
    /\ i >= 1
    /\ i + Len(lit) - 1 <= Len(s)
    /\ \A j \in 1..Len(lit) : LowerChar(s[i + j - 1]) = lit[j]

\* `lit in s`
Contains(s, lit) == \E i \in 1..(Len(s) - Len(lit) + 1) : StartsAt(s, i, lit)

\* Position of the leftmost occurrence of lit at or after from, 0 if none.
FindCI(s, lit, from) ==
    LET hits == {i \in from..(Len(s) - Len(lit) + 1) : StartsAtCI(s, i, lit)}
    IN  IF hits = {} THEN 0 ELSE Min(hits)

\* The position where a greedy \s* that starts at i stops.
RECURSIVE SkipWs(_, _)
SkipWs(s, i) ==
    IF i <= Len(s) /\ s[i] \in Whitespace THEN SkipWs(s, i + 1) ELSE i

\* The position where a greedy run over the class cls that starts at i stops.
RECURSIVE SkipClass(_, _, _)
SkipClass(s, i, cls) ==
    IF i <= Len(s) /\ s[i] \in cls THEN SkipClass(s, i + 1, cls) ELSE i

\* Concatenation of a sequence of strings.
RECURSIVE Concat(_)
Concat(ss) == IF ss = <<>> THEN <<>> ELSE Head(ss) \o Concat(Tail(ss))

(***************************************************************************)
(* reasoning_parser.parse_llm_response                                     *)
(***************************************************************************)

kwReasoning == <<"r", "e", "a", "s", "o", "n", "i", "n", "g", ":">>
kwFinalAnswer == <<"f", "i", "n", "a", "l", " ", "a", "n", "s", "w", "e", "r", ":">>

\* A failed re.search (Python's None in place of a match object).
NoMatch == [matched |-> FALSE]

\* Fault-injected variant of reasoning_match: the capture is greedy, (.*)
\* in place of (.*?), and runs to the end of the text.
reasoning_match_greedy(raw) ==
    LET i == FindCI(raw, <<"r", "e", "a", "s", "o", "n", "i", "n", "g", ":">>, 1)
        q == SkipWs(raw, i + 10)
    IN  IF i = 0 THEN [matched |-> FALSE]
        ELSE [matched |-> TRUE, group |-> Slice(raw, q, Len(raw))]

\* re.search(r"REASONING:\s*(.*?)\s*(?:FINAL ANSWER:|$)", raw, DOTALL | IGNORECASE)
\* with its group(1).  The lazy (.*?) ends at the first position from which
\* \s*(?:FINAL ANSWER:|$) matches; $ matches at the end of the text and before
\* a final newline.
reasoning_match(raw) ==
    LET n == Len(raw)
        i == FindCI(raw, kwReasoning, 1)
        q == SkipWs(raw, i + Len(kwReasoning))
        TailOk(p) ==
            LET r == SkipWs(raw, p)
            IN  \/ StartsAtCI(raw, r, kwFinalAnswer)
                \/ r = n + 1
                \/ (r = n /\ raw[n] = "\n")
        p == Min({x \in q..(n + 1) : TailOk(x)})
    IN  IF i = 0 THEN NoMatch ELSE [matched |-> TRUE, group |-> Slice(raw, q, p - 1)]

\* re.search(r"FINAL ANSWER:\s*(.*)", raw, DOTALL | IGNORECASE) with its group(1).
answer_match(raw) ==
    LET i == FindCI(raw, kwFinalAnswer, 1)
    IN  IF i = 0 THEN NoMatch
        ELSE [matched |-> TRUE,
              group |-> Slice(raw, SkipWs(raw, i + Len(kwFinalAnswer)), Len(raw))]

\* Lines 31-37: the locals `reasoning` and `answer` after strategy 0.
explicit_reasoning(raw) ==
    IF reasoning_match(raw).matched THEN strip(reasoning_match(raw).group) ELSE <<>>

explicit_answer(raw) ==
    IF answer_match(raw).matched THEN strip(answer_match(raw).group) ELSE <<>>

\* Fault-injected variant of parse_exit: line 21 tests `not raw_response`
\* alone, so that whitespace-only text goes on to the strategies.
parse_exit_emptyonly(raw) ==
    IF raw = <<>> THEN "blank"
    ELSE IF explicit_reasoning(raw) # <<>> /\ explicit_answer(raw) # <<>> THEN "explicit"
    ELSE "end_of_body"

\* The statement at which parse_llm_response stops: the early return of line
\* 22, the return of line 40, or the end of the body after line 78.
parse_exit(raw) ==
    IF IsBlank(raw) THEN "blank"
    ELSE IF explicit_reasoning(raw) # <<>> /\ explicit_answer(raw) # <<>> THEN "explicit"
    ELSE "end_of_body"

\* parse_llm_response(raw_response).  Lines 42-78 assign only the locals
\* `answer` and `reasoning`; the body ends there without a return statement,
\* so a call that gets past line 40 evaluates to None.
parse_llm_response(raw) ==
    LET exit == parse_exit(raw)
    IN  IF exit = "blank" THEN [answer |-> <<>>, reasoning |-> <<>>]
        ELSE IF exit = "explicit"
        THEN [answer |-> explicit_answer(raw), reasoning |-> explicit_reasoning(raw)]
        ELSE None

(***************************************************************************)
(* reasoning_parser.split_reasoning_steps                                  *)
(***************************************************************************)

kwStars == <<"*", "*">>
kwStep == <<"s", "t", "e", "p">>

\* The bullet characters of bullet_pattern, line 113; "u2022" stands for the
\* one character U+2022.
BulletChars == {"-", "*", "u2022"}

\* The alternatives of ordinal_pattern, line 121, in the order of the pattern.
OrdinalWords ==
    << <<"f", "i", "r", "s", "t">>,
       <<"s", "e", "c", "o", "n", "d">>,
       <<"t", "h", "i", "r", "d">>,
       <<"f", "o", "u", "r", "t", "h">>,
       <<"f", "i", "f", "t", "h">>,
       <<"n", "e", "x", "t">>,
       <<"t", "h", "e", "n">>,
       <<"f", "i", "n", "a", "l", "l", "y">> >>

\* (?:\*\*)? at position a: the position after it.
SkipStars(s, a) == IF StartsAt(s, a, kwStars) THEN a + 2 ELSE a

\* (?:\*\*)?(\d+)(?:[.)]|\*\*) at position a: the position after it, 0 if it
\* does not match there.
NumberedMarkerEnd(s, a) ==
    LET b == SkipStars(s, a)
        d == SkipClass(s, b, Digits)
    IN  IF d = b THEN 0
        ELSE IF d <= Len(s) /\ s[d] \in {".", ")"} THEN d + 1
        ELSE IF StartsAt(s, d, kwStars) THEN d + 2
        ELSE 0

\* (?:\*\*)?(?:step\s+\d+|step\s+[a-z])(?:\*\*)? at position a, IGNORECASE.
StepMarkerEnd(s, a) ==
    LET b == SkipStars(s, a)
        w == b + Len(kwStep)
        x == SkipWs(s, w)
        d == SkipClass(s, x, Digits)
    IN  IF ~StartsAtCI(s, b, kwStep) \/ x = w THEN 0
        ELSE IF d > x THEN SkipStars(s, d)
        ELSE IF x <= Len(s) /\ LowerChar(s[x]) \in LowerSet THEN SkipStars(s, x + 1)
        ELSE 0

\* [-*u2022] at position a.
BulletMarkerEnd(s, a) ==
    IF a <= Len(s) /\ s[a] \in BulletChars THEN a + 1 ELSE 0

\* (?:first|second|third|fourth|fifth|next|then|finally) at position a,
\* IGNORECASE.
OrdinalMarkerEnd(s, a) ==
    LET hit == {k \in 1..Len(OrdinalWords) : StartsAtCI(s, a, OrdinalWords[k])}
    IN  IF hit = {} THEN 0 ELSE a + Len(OrdinalWords[Min(hit)])

\* The list marker of the pattern `kind` at position a.
MarkerEnd(kind, s, a) ==
    CASE kind = "numbered" -> NumberedMarkerEnd(s, a)
      [] kind = "step"     -> StepMarkerEnd(s, a)
      [] kind = "bullet"   -> BulletMarkerEnd(s, a)
      [] kind = "ordinal"  -> OrdinalMarkerEnd(s, a)

\* The characters the pattern accepts between the marker and the item text:
\* \s+ (lines 97, 113), [:\s]+ (line 105), [,:\s]+ (line 121).
SeparatorClass(kind) ==
    CASE kind = "numbered" -> Whitespace
      [] kind = "step"     -> Whitespace \cup {":"}
      [] kind = "bullet"   -> Whitespace
      [] kind = "ordinal"  -> Whitespace \cup {",", ":"}

\* What the lookahead wants after \n\s* : the next item's marker.
LookMarker(kind, s, a) ==
    CASE kind = "numbered" -> NumberedMarkerEnd(s, a) # 0
      [] kind = "step"     ->
            LET b == SkipStars(s, a)
            IN  /\ StartsAtCI(s, b, kwStep)
                /\ SkipWs(s, b + Len(kwStep)) > b + Len(kwStep)
      [] kind = "bullet"   -> BulletMarkerEnd(s, a) # 0
      [] kind = "ordinal"  -> OrdinalMarkerEnd(s, a) # 0

\* The lookahead (?=(?:\n\s*<marker>|\Z)) at position t.
LookAhead(kind, s, t) ==
    \/ t = Len(s) + 1
    \/ /\ t <= Len(s)
       /\ s[t] = "\n"
       /\ LookMarker(kind, s, SkipWs(s, t + 1))

\* Fault-injected variant of ListMatchAt: the group opens before the marker
\* and keeps the numeral, label or bullet in the item text.
ListMatchAt_keepmarker(kind, s, i) ==
    LET n == Len(s)
        boundary == i = 1 \/ s[i - 1] = "\n" \/ (i <= n /\ s[i] = "\n")
        m == MarkerEnd(kind, s, SkipWs(s, i))
        e == SkipClass(s, m, SeparatorClass(kind))
        c == IF e <= n THEN e ELSE n
        t == Min({x \in (c + 1)..(n + 1) : LookAhead(kind, s, x)})
    IN  IF ~boundary \/ m = 0 \/ e = m \/ (e > n /\ e - m < 2)
        THEN [ok |-> FALSE]
        ELSE [ok |-> TRUE, group |-> SubSeq(s, SkipWs(s, i), t - 1), stop |-> t]

\* One attempt of a list pattern at position i:
\*   (?:^|\n)\s*<marker><separator>+(.+?)(?=...)      MULTILINE | DOTALL
\* The separator run is greedy and gives back one character when nothing is
\* left for (.+?); the lazy (.+?) stops at the first position where the
\* lookahead holds.  [ok, group, stop]: stop is the position after the match.
ListMatchAt(kind, s, i) ==
    LET n == Len(s)
        boundary == i = 1 \/ s[i - 1] = "\n" \/ (i <= n /\ s[i] = "\n")
        m == MarkerEnd(kind, s, SkipWs(s, i))
        e == SkipClass(s, m, SeparatorClass(kind))
        c == IF e <= n THEN e ELSE n
        t == Min({x \in (c + 1)..(n + 1) : LookAhead(kind, s, x)})
    IN  IF ~boundary \/ m = 0 \/ e = m \/ (e > n /\ e - m < 2)
        THEN [ok |-> FALSE]
        ELSE [ok |-> TRUE, group |-> SubSeq(s, c, t - 1), stop |-> t]

\* The leftmost position at or after pos where the list pattern matches, 0
\* if there is none.
RECURSIVE ListSearch(_, _, _)
ListSearch(kind, s, pos) ==
    IF pos > Len(s) THEN 0
    ELSE IF ListMatchAt(kind, s, pos).ok THEN pos
    ELSE ListSearch(kind, s, pos + 1)

\* re.findall of a list pattern: the captured item texts of the successive
\* non-overlapping matches, scanning from position pos.
RECURSIVE ListFindAll(_, _, _)
ListFindAll(kind, s, pos) ==
    LET i == ListSearch(kind, s, pos)
        mt == ListMatchAt(kind, s, i)
    IN  IF i = 0 THEN <<>>
        ELSE <<mt.group>> \o ListFindAll(kind, s, mt.stop)

\* str.split(sep) for a non-empty separator.
RECURSIVE split(_, _)
split(s, sep) ==
    LET hits == {i \in 1..(Len(s) - Len(sep) + 1) : StartsAt(s, i, sep)}
    IN  IF hits = {} THEN <<s>>
        ELSE <<Slice(s, 1, Min(hits) - 1)>>
             \o split(Slice(s, Min(hits) + Len(sep), Len(s)), sep)

SentenceEnd == {".", "!", "?"}

\* re.split(r'[.!?]+\s+', s): a separator is a run of sentence punctuation
\* followed by at least one whitespace character.
RECURSIVE re_split_sentences(_)
re_split_sentences(s) ==
    LET IsSep(i) ==
            LET j == SkipClass(s, i, SentenceEnd)
            IN  s[i] \in SentenceEnd /\ SkipWs(s, j) > j
        hits == {i \in 1..Len(s) : IsSep(i)}
    IN  IF hits = {} THEN <<s>>
        ELSE LET i == Min(hits)
                 k == SkipWs(s, SkipClass(s, i, SentenceEnd))
             IN  <<Slice(s, 1, i - 1)>> \o re_split_sentences(Slice(s, k, Len(s)))

\* [f(x) for x in xs]
MapStrip(xs) == [i \in 1..Len(xs) |-> strip(xs[i])]

\* [p.strip() for p in reasoning.split('\n\n') if p.strip()], line 130.
paragraphs(r) == SelectSeq(MapStrip(split(r, <<"\n", "\n">>)), LAMBDA p : p # <<>>)

\* Lines 135-136: the sentences that are non-blank and longer than 10.
sentences(r) ==
    SelectSeq(MapStrip(re_split_sentences(r)), LAMBDA x : x # <<>> /\ Len(x) > 10)

\* Fault-injected variant of split_reasoning_steps: a single numbered match
\* is accepted as a list (`>= 1` at line 100).
split_reasoning_steps_single(r) ==
    LET numbered_matches == ListFindAll("numbered", r, 1)
        step_matches == ListFindAll("step", r, 1)
        bullet_matches == ListFindAll("bullet", r, 1)
        ordinal_matches == ListFindAll("ordinal", r, 1)
    IN  IF IsBlank(r) THEN <<>>
        ELSE IF Len(numbered_matches) >= 1 THEN MapStrip(numbered_matches)
        ELSE IF Len(step_matches) >= 2 THEN MapStrip(step_matches)
        ELSE IF Len(bullet_matches) >= 2 THEN MapStrip(bullet_matches)
        ELSE IF Len(ordinal_matches) >= 2 THEN MapStrip(ordinal_matches)
        ELSE IF Len(paragraphs(r)) >= 2 THEN paragraphs(r)
        ELSE IF Len(sentences(r)) >= 2 THEN sentences(r)
        ELSE IF strip(r) # <<>> THEN <<strip(r)>> ELSE <<>>

\* split_reasoning_steps(reasoning), lines 91-142.
\* Fault-injected variant of split_reasoning_steps: the final fallback returns
\* the reasoning as it is, not trimmed.
split_reasoning_steps_untrimmed(r) ==
    LET numbered_matches == ListFindAll("numbered", r, 1)
        step_matches == ListFindAll("step", r, 1)
        bullet_matches == ListFindAll("bullet", r, 1)
        ordinal_matches == ListFindAll("ordinal", r, 1)
    IN  IF IsBlank(r) THEN <<>>
        ELSE IF Len(numbered_matches) >= 2 THEN MapStrip(numbered_matches)
        ELSE IF Len(step_matches) >= 2 THEN MapStrip(step_matches)
        ELSE IF Len(bullet_matches) >= 2 THEN MapStrip(bullet_matches)
        ELSE IF Len(ordinal_matches) >= 2 THEN MapStrip(ordinal_matches)
        ELSE IF Len(paragraphs(r)) >= 2 THEN paragraphs(r)
        ELSE IF Len(sentences(r)) >= 2 THEN sentences(r)
        ELSE IF strip(r) # <<>> THEN <<r>> ELSE <<>>

split_reasoning_steps(r) ==
    LET numbered_matches == ListFindAll("numbered", r, 1)
        step_matches == ListFindAll("step", r, 1)
        bullet_matches == ListFindAll("bullet", r, 1)
        ordinal_matches == ListFindAll("ordinal", r, 1)
    IN  IF IsBlank(r) THEN <<>>
        ELSE IF Len(numbered_matches) >= 2 THEN MapStrip(numbered_matches)
        ELSE IF Len(step_matches) >= 2 THEN MapStrip(step_matches)
        ELSE IF Len(bullet_matches) >= 2 THEN MapStrip(bullet_matches)
        ELSE IF Len(ordinal_matches) >= 2 THEN MapStrip(ordinal_matches)
        ELSE IF Len(paragraphs(r)) >= 2 THEN paragraphs(r)
        ELSE IF Len(sentences(r)) >= 2 THEN sentences(r)
        ELSE IF strip(r) # <<>> THEN <<strip(r)>> ELSE <<>>

(***************************************************************************)
(* evaluator.py: the rule bank                                             *)
(*                                                                         *)
(* A rule returns {"score": int, "issue": str or None}.  The issue string  *)
(* "; ".join(issues) is kept as the sequence of its pieces, the "; "       *)
(* separators included.                                                    *)
(***************************************************************************)

\* "; ".join(issues) if issues else None
RECURSIVE JoinIssues(_)
JoinIssues(issues) ==
    IF Len(issues) = 1 THEN Head(issues)
    ELSE Head(issues) \o <<"; ">> \o JoinIssues(Tail(issues))

IssueOf(issues) == IF issues = <<>> THEN None ELSE [text |-> JoinIssues(issues)]

Result(score, issues) == [score |-> score, issue |-> IssueOf(issues)]

\* max(0, score)
Max0(x) == IF x < 0 THEN 0 ELSE x

\* " ".join(steps)
RECURSIVE JoinSpace(_)
JoinSpace(ss) ==
    IF ss = <<>> THEN <<>>
    ELSE IF Len(ss) = 1 THEN Head(ss)
    ELSE Head(ss) \o <<" ">> \o JoinSpace(Tail(ss))

\* len(s.split()): the number of maximal runs of non-whitespace.
WordCount(s) ==
    Cardinality({i \in 1..Len(s) :
        s[i] \notin Whitespace /\ (i = 1 \/ s[i - 1] \in Whitespace)})

\* any(w in s for w in words)
AnyIn(words, s) == \E k \in 1..Len(words) : Contains(s, words[k])

\* sum(1 for x in xs if P(x))
CountIf(xs, P(_)) == Cardinality({i \in 1..Len(xs) : P(xs[i])})

RECURSIVE SumLen(_)
SumLen(ss) == IF ss = <<>> THEN 0 ELSE Len(Head(ss)) + SumLen(Tail(ss))

RECURSIVE SumWords(_)
SumWords(ss) == IF ss = <<>> THEN 0 ELSE WordCount(Head(ss)) + SumWords(Tail(ss))

\* set(re.findall(r'\b\w+\b', s)): the maximal runs of word characters.
WordSet(s) ==
    {SubSeq(s, i, SkipClass(s, i, WordChars) - 1) :
        i \in {j \in 1..Len(s) :
                 s[j] \in WordChars /\ (j = 1 \/ s[j - 1] \notin WordChars)}}

\* \b of the re module at position i (between s[i-1] and s[i]).
WordBoundary(s, i) ==
    LET IsWord(k) == k >= 1 /\ k <= Len(s) /\ s[k] \in WordChars
    IN  IsWord(i - 1) # IsWord(i)

\* re.search(r'\b<lit>\b', s)
SearchWord(s, lit) ==
    \E i \in 1..(Len(s) - Len(lit) + 1) :
        StartsAt(s, i, lit) /\ WordBoundary(s, i) /\ WordBoundary(s, i + Len(lit))

\* check_logical_flow, lines 49-53.
transition_words ==
    << <<"t", "h", "e", "r", "e", "f", "o", "r", "e">>,
       <<"t", "h", "u", "s">>,
       <<"s", "o">>,
       <<"h", "e", "n", "c", "e">>,
       <<"c", "o", "n", "s", "e", "q", "u", "e", "n", "t", "l", "y">>,
       <<"t", "h", "e", "n">>,
       <<"n", "e", "x", "t">>,
       <<"a", "f", "t", "e", "r">>,
       <<"b", "e", "c", "a", "u", "s", "e">>,
       <<"s", "i", "n", "c", "e">>,
       <<"a", "s", " ", "a", " ", "r", "e", "s", "u", "l", "t">>,
       <<"t", "h", "i", "s", " ", "m", "e", "a", "n", "s">>,
       <<"w", "h", "i", "c", "h", " ", "g", "i", "v", "e", "s">> >>

\* check_contradictions, line 99.
contradiction_words ==
    << <<"h", "o", "w", "e", "v", "e", "r">>,
       <<"b", "u", "t", " ", "a", "c", "t", "u", "a", "l", "l", "y">>,
       <<"c", "o", "r", "r", "e", "c", "t", "i", "o", "n">> >>

\* check_missing_steps, line 152.
question_calc_ops ==
    << <<"+">>,
       <<"-">>,
       <<"*">>,
       <<"/">>,
       <<"c", "a", "l", "c", "u", "l", "a", "t", "e">>,
       <<"c", "o", "m", "p", "u", "t", "e">>,
       <<"s", "u", "m">>,
       <<"p", "r", "o", "d", "u", "c", "t">> >>

\* check_missing_steps, line 155.
step_calc_ops ==
    << <<"+">>,
       <<"-">>,
       <<"*">>,
       <<"/">>,
       <<"=">>,
       <<"e", "q", "u", "a", "l", "s">> >>

\* check_step_depth, line 193.
depth_vague_words ==
    << <<"m", "a", "y", "b", "e">>,
       <<"p", "e", "r", "h", "a", "p", "s">>,
       <<"p", "o", "s", "s", "i", "b", "l", "y">>,
       <<"m", "i", "g", "h", "t">>,
       <<"c", "o", "u", "l", "d", " ", "b", "e">>,
       <<"s", "e", "e", "m", "s">> >>

\* check_reasoning_substance, lines 221-224.
principles_indicators ==
    << <<"f", "u", "n", "d", "a", "m", "e", "n", "t", "a", "l">>,
       <<"b", "r", "e", "a", "k", " ", "d", "o", "w", "n">>,
       <<"t", "r", "u", "t", "h">>,
       <<"a", "s", "s", "u", "m", "p", "t", "i", "o", "n">>,
       <<"a", "x", "i", "o", "m">>,
       <<"s", "p", "e", "c", "i", "f", "i", "c", "a", "l", "l", "y">>,
       <<"p", "r", "e", "c", "i", "s", "e", "l", "y">>,
       <<"d", "e", "f", "i", "n", "i", "t", "i", "o", "n">>,
       <<"c", "o", "r", "e">> >>

\* check_reasoning_substance, lines 233-235.
causal_indicators ==
    << <<"b", "e", "c", "a", "u", "s", "e">>,
       <<"s", "i", "n", "c", "e">>,
       <<"i", "m", "p", "l", "i", "e", "s">>,
       <<"c", "a", "u", "s", "e", "s">>,
       <<"l", "e", "a", "d", "s", " ", "t", "o">>,
       <<"r", "e", "s", "u", "l", "t", " ", "o", "f">>,
       <<"d", "u", "e", " ", "t", "o">> >>

\* check_step_format, line 271.
format_ordinals ==
    << <<"f", "i", "r", "s", "t">>,
       <<"s", "e", "c", "o", "n", "d">>,
       <<"t", "h", "i", "r", "d">>,
       <<"n", "e", "x", "t">>,
       <<"t", "h", "e", "n">>,
       <<"f", "i", "n", "a", "l", "l", "y">> >>

\* check_unsupported_claims, line 323.
evident_words ==
    << <<"o", "b", "v", "i", "o", "u", "s">>,
       <<"c", "l", "e", "a", "r">>,
       <<"e", "v", "i", "d", "e", "n", "t">> >>

\* check_unsupported_claims, line 335.
justification_words ==
    << <<"b", "e", "c", "a", "u", "s", "e">>,
       <<"s", "i", "n", "c", "e">>,
       <<"a", "s">> >>

\* check_vague_statements, lines 358-362.
vague_indicators ==
    << <<"p", "r", "o", "b", "a", "b", "l", "y">>,
       <<"m", "a", "y", "b", "e">>,
       <<"p", "e", "r", "h", "a", "p", "s">>,
       <<"m", "i", "g", "h", "t">>,
       <<"c", "o", "u", "l", "d">>,
       <<"s", "e", "e", "m", "s">>,
       <<"a", "p", "p", "e", "a", "r", "s">>,
       <<"l", "i", "k", "e", "l", "y">>,
       <<"p", "o", "s", "s", "i", "b", "l", "y">>,
       <<"s", "o", "m", "e", "w", "h", "a", "t">>,
       <<"k", "i", "n", "d", " ", "o", "f">>,
       <<"s", "o", "r", "t", " ", "o", "f">>,
       <<"a", "p", "p", "r", "o", "x", "i", "m", "a", "t", "e", "l", "y">>,
       <<"r", "o", "u", "g", "h", "l", "y">> >>

kwItIs == <<"i", "t", " ", "i", "s">>
kwWeKnowThat == <<"w", "e", " ", "k", "n", "o", "w", " ", "t", "h", "a", "t">>
kwItMustBe == <<"i", "t", " ", "m", "u", "s", "t", " ", "b", "e">>
kwClearly == <<"c", "l", "e", "a", "r", "l", "y">>

\* Fault-injected variant of check_step_count: two steps already count as
\* enough (`count == 1` as the last penalised case).
check_step_count_two_suffice(stps) ==
    LET count == Len(stps)
    IN  IF count = 0 THEN Result(0, <<<<"No reasoning steps found">>>>)
        ELSE IF count = 1 THEN Result(30, <<<<"Only one reasoning step provided">>>>)
        ELSE Result(100, <<>>)

\* check_step_count(steps), lines 14-37.
check_step_count(stps) ==
    LET count == Len(stps)
    IN  IF count = 0 THEN Result(0, <<<<"No reasoning steps found">>>>)
        ELSE IF count = 1 THEN Result(30, <<<<"Only one reasoning step provided">>>>)
        ELSE IF count = 2 THEN Result(60, <<<<"Only two reasoning steps (minimal)">>>>)
        ELSE Result(100, <<>>)

\* check_logical_flow(steps), lines 40-76.  The thresholds len(steps) * 0.3 and
\* len(steps) * 0.4 are compared in tenths.
check_logical_flow(stps) ==
    LET transitions_found == CountIf(stps, LAMBDA s : AnyIn(transition_words, lower(s)))
        very_short_steps == CountIf(stps, LAMBDA s : WordCount(s) < 5)
        weak == transitions_found * 10 < Len(stps) * 3
        brief == very_short_steps * 10 > Len(stps) * 4
        score == 100 - (IF weak THEN 20 ELSE 0) - (IF brief THEN 15 ELSE 0)
        issues ==
            (IF weak THEN <<<<"Weak logical connections between steps">>>> ELSE <<>>)
            \o (IF brief THEN <<<<"Some steps are too brief or disconnected">>>> ELSE <<>>)
    IN  IF Len(stps) < 2
        THEN Result(50, <<<<"Insufficient steps to evaluate flow">>>>)
        ELSE Result(Max0(score), issues)

\* Fault-injected variant of contradiction_issues: the issue names the
\* 0-based index of enumerate(steps).
RECURSIVE contradiction_issues_zero_based(_, _)
contradiction_issues_zero_based(stps, i) ==
    IF i > Len(stps) THEN <<>>
    ELSE (IF AnyIn(contradiction_words, lower(stps[i]))
          THEN <<<<"Possible self-correction or contradiction in step ", ToString(i - 1)>>>>
          ELSE <<>>)
         \o contradiction_issues_zero_based(stps, i + 1)

\* The issues list of check_contradictions after steps i..n, with the score
\* lowered by 20 for each.
RECURSIVE contradiction_issues(_, _)
contradiction_issues(stps, i) ==
    IF i > Len(stps) THEN <<>>
    ELSE (IF AnyIn(contradiction_words, lower(stps[i]))
          THEN <<<<"Possible self-correction or contradiction in step ", ToString(i)>>>>
          ELSE <<>>)
         \o contradiction_issues(stps, i + 1)

\* Fault-injected variant of check_contradictions: the score is returned
\* without max(0, score).
check_contradictions_noclamp(stps) ==
    LET issues == contradiction_issues(stps, 1)
        score == 100 - 20 * Len(issues)
    IN  IF Len(stps) < 2 THEN Result(100, <<>>)
        ELSE Result(score, issues)

\* check_contradictions(steps), lines 79-106.
check_contradictions(stps) ==
    LET issues == contradiction_issues(stps, 1)
        score == 100 - 20 * Len(issues)
    IN  IF Len(stps) < 2 THEN Result(100, <<>>)
        ELSE Result(Max0(score), issues)

\* check_answer_support(steps, answer), lines 109-136.
check_answer_support(stps, ans) ==
    LET answer_words == {w \in WordSet(lower(ans)) : Len(w) > 3}
        reasoning_text == lower(JoinSpace(stps))
        matching_terms == Cardinality({w \in answer_words : Contains(reasoning_text, w)})
    IN  IF ans = <<>> \/ stps = <<>>
        THEN Result(0, <<<<"Missing answer or reasoning">>>>)
        ELSE IF answer_words = {}
        THEN Result(50, <<<<"Cannot extract key terms from answer">>>>)
        ELSE IF matching_terms = 0
        THEN Result(20, <<<<"Answer not clearly derived from reasoning">>>>)
        ELSE IF matching_terms * 10 < Cardinality(answer_words) * 3
        THEN Result(50, <<<<"Weak connection between reasoning and answer">>>>)
        ELSE Result(100, <<>>)

\* check_missing_steps(steps, question), lines 143-171.
check_missing_steps(stps, q) ==
    LET needs_calc == AnyIn(question_calc_ops, q)
        has_calculation == \E i \in 1..Len(stps) : AnyIn(step_calc_ops, stps[i])
        no_calc == needs_calc /\ ~has_calculation
        total_length == SumLen(stps)
        brief == total_length < 100
        score == 100 - (IF no_calc THEN 30 ELSE 0) - (IF brief THEN 20 ELSE 0)
        issues ==
            (IF no_calc
             THEN <<<<"Question requires calculation but no explicit computation shown">>>>
             ELSE <<>>)
            \o (IF brief THEN <<<<"Reasoning is too brief">>>> ELSE <<>>)
    IN  IF stps = <<>> THEN Result(0, <<<<"No reasoning provided">>>>)
        ELSE Result(Max0(score), issues)

\* check_step_depth(steps), lines 174-206.  avg_length < 5 is compared as
\* sum < 5 * len(steps).
check_step_depth(stps) ==
    LET total_words == SumWords(stps)
        shallow == total_words < 5 * Len(stps)
        thin == ~shallow /\ total_words < 8 * Len(stps)
        vague_count == CountIf(stps, LAMBDA s : AnyIn(depth_vague_words, lower(s)))
        vague == vague_count * 10 > Len(stps) * 4
        score == 100 - (IF shallow THEN 30 ELSE 0) - (IF thin THEN 15 ELSE 0)
                     - (IF vague THEN 20 ELSE 0)
        issues ==
            (IF shallow THEN <<<<"Steps are too shallow (very short)">>>> ELSE <<>>)
            \o (IF thin THEN <<<<"Steps could be more detailed">>>> ELSE <<>>)
            \o (IF vague THEN <<<<"Too many vague or uncertain statements">>>> ELSE <<>>)
    IN  IF stps = <<>> THEN Result(0, <<<<"No steps to evaluate">>>>)
        ELSE Result(Max0(score), issues)

\* check_reasoning_substance(steps), lines 209-245.
check_reasoning_substance(stps) ==
    LET full_text == lower(JoinSpace(stps))
        found_principles ==
            Cardinality({k \in 1..Len(principles_indicators) :
                           Contains(full_text, principles_indicators[k])})
        found_causal ==
            Cardinality({k \in 1..Len(causal_indicators) :
                           Contains(full_text, causal_indicators[k])})
        no_principles == found_principles = 0
        weak_causal == found_causal * 2 < Len(stps)
        score == 100 - (IF no_principles THEN 20 ELSE 0) - (IF weak_causal THEN 15 ELSE 0)
        issues ==
            (IF no_principles
             THEN <<<<"Lack of first-principles language (e.g., 'fundamental', 'assumption')">>>>
             ELSE <<>>)
            \o (IF weak_causal
                THEN <<<<"Weak causal reasoning (few 'because', 'since', etc.)">>>>
                ELSE <<>>)
    IN  IF stps = <<>> THEN Result(0, <<<<"No steps to evaluate">>>>)
        ELSE Result(Max0(score), issues)

\* The characters of the class [-*...] of line 267 (the bullet of the source
\* file is stored as the three characters U+00E2 U+20AC U+00A2).
FormatBulletChars == {"-", "*", "u00e2", "u20ac", "u00a2"}

\* One attempt at position i of a line-anchored pattern of check_step_format /
\* check_explicit_numbering, (?:^|\n)\s*<marker> under MULTILINE: the position
\* after the match, 0 if there is none.
\*   "numbers"  \d+[.)]        "labels"   step\s+\d+  (IGNORECASE)
\*   "bullets"  [-*...]        "ordinals" (?:first|second|third|next|then|finally)
LineMarkerEnd(kind, s, i) ==
    LET n == Len(s)
        boundary == i = 1 \/ s[i - 1] = "\n" \/ (i <= n /\ s[i] = "\n")
        a == SkipWs(s, i)
        d == SkipClass(s, a, Digits)
        w == a + Len(kwStep)
        x == SkipWs(s, w)
        e == SkipClass(s, x, Digits)
    IN  IF ~boundary THEN 0
        ELSE CASE kind = "numbers" ->
                    IF d > a /\ d <= n /\ s[d] \in {".", ")"} THEN d + 1 ELSE 0
               [] kind = "labels" ->
                    IF StartsAtCI(s, a, kwStep) /\ x > w /\ e > x THEN e ELSE 0
               [] kind = "bullets" ->
                    IF a <= n /\ s[a] \in FormatBulletChars THEN a + 1 ELSE 0
               [] kind = "ordinals" ->
                    LET hit == {k \in 1..Len(format_ordinals) :
                                  StartsAtCI(s, a, format_ordinals[k])}
                    IN  IF hit = {} THEN 0 ELSE a + Len(format_ordinals[Min(hit)])

\* bool(re.search(pattern, reasoning, ...))
LineSearch(kind, s) == \E i \in 1..(Len(s) + 1) : LineMarkerEnd(kind, s, i) # 0

\* len(re.findall(pattern, reasoning, ...)): successive non-overlapping matches.
RECURSIVE LineCount(_, _, _)
LineCount(kind, s, pos) ==
    LET hits == {i \in pos..Len(s) : LineMarkerEnd(kind, s, i) # 0}
    IN  IF hits = {} THEN 0
        ELSE 1 + LineCount(kind, s, LineMarkerEnd(kind, s, Min(hits)))

\* check_step_format(reasoning), lines 252-283.
check_step_format(r) ==
    LET has_numbers == LineSearch("numbers", r)
        has_step_labels == LineSearch("labels", r)
        has_bullets == LineSearch("bullets", r)
        has_ordinals == LineSearch("ordinals", r)
        none == ~(has_numbers \/ has_step_labels \/ has_bullets \/ has_ordinals)
    IN  IF r = <<>> THEN Result(0, <<<<"No reasoning provided">>>>)
        ELSE IF none THEN Result(Max0(100 - 40), <<<<"No clear step-by-step structure">>>>)
        ELSE Result(Max0(100), <<>>)

\* check_explicit_numbering(reasoning), lines 286-306.
check_explicit_numbering(r) ==
    LET numbered_items == LineCount("numbers", r, 1)
        step_labels == LineCount("labels", r, 1)
        total_explicit == numbered_items + step_labels
    IN  IF r = <<>> THEN Result(0, <<<<"No reasoning provided">>>>)
        ELSE IF total_explicit >= 3 THEN Result(100, <<>>)
        ELSE IF total_explicit >= 2 THEN Result(70, <<<<"Limited explicit numbering">>>>)
        ELSE IF total_explicit >= 1 THEN Result(40, <<<<"Minimal explicit numbering">>>>)
        ELSE Result(20, <<<<"No explicit step numbering">>>>)

\* re.search(r'\bit is\b.*\b(?:obvious|clear|evident)\b', s): `.` does not
\* match a newline.
SearchItIsEvident(s) ==
    \E i \in 1..Len(s) :
        /\ StartsAt(s, i, kwItIs)
        /\ WordBoundary(s, i)
        /\ WordBoundary(s, i + Len(kwItIs))
        /\ \E j \in (i + Len(kwItIs))..Len(s) :
              /\ \A k \in (i + Len(kwItIs))..(j - 1) : s[k] # "\n"
              /\ WordBoundary(s, j)
              /\ \E w \in 1..Len(evident_words) :
                    /\ StartsAt(s, j, evident_words[w])
                    /\ WordBoundary(s, j + Len(evident_words[w]))

\* Lines 330-337: the step matches an assertive pattern and holds none of
\* 'because', 'since', 'as'.
is_unsupported(stp) ==
    LET step_lower == lower(stp)
    IN  /\ \/ SearchItIsEvident(step_lower)
           \/ SearchWord(step_lower, kwWeKnowThat)
           \/ SearchWord(step_lower, kwItMustBe)
           \/ SearchWord(step_lower, kwClearly)
        /\ ~AnyIn(justification_words, step_lower)

\* min(40, unsupported_count * 15)
unsupported_penalty(count) == IF count * 15 < 40 THEN count * 15 ELSE 40

\* Fault-injected variant of check_unsupported_claims: the loop over the
\* patterns does not break, so a step counts once for each pattern it matches.
check_unsupported_claims_per_pattern(stps) ==
    LET matches(stp, p) ==
            \/ p = 1 /\ SearchItIsEvident(lower(stp))
            \/ p = 2 /\ SearchWord(lower(stp), kwWeKnowThat)
            \/ p = 3 /\ SearchWord(lower(stp), kwItMustBe)
            \/ p = 4 /\ SearchWord(lower(stp), kwClearly)
        unsupported_count ==
            Cardinality({x \in (1..Len(stps)) \X (1..4) :
                            /\ matches(stps[x[1]], x[2])
                            /\ ~AnyIn(justification_words, lower(stps[x[1]]))})
        score == 100 - unsupported_penalty(unsupported_count)
    IN  IF stps = <<>> THEN Result(100, <<>>)
        ELSE IF unsupported_count > 0
        THEN Result(Max0(score),
                    <<<<"Found ", ToString(unsupported_count),
                        " potentially unsupported claim(s)">>>>)
        ELSE Result(Max0(100), <<>>)

\* check_unsupported_claims(steps), lines 313-347.
check_unsupported_claims(stps) ==
    LET unsupported_count == CountIf(stps, is_unsupported)
        score == 100 - unsupported_penalty(unsupported_count)
    IN  IF stps = <<>> THEN Result(100, <<>>)
        ELSE IF unsupported_count > 0
        THEN Result(Max0(score),
                    <<<<"Found ", ToString(unsupported_count),
                        " potentially unsupported claim(s)">>>>)
        ELSE Result(Max0(100), <<>>)

\* Line 367: the step holds a vague indicator.
is_vague(stp) == AnyIn(vague_indicators, lower(stp))

\* Fault-injected variant of check_vague_statements: the branch of line 373
\* lowers the score and appends no issue.
check_vague_statements_silent(stps) ==
    LET vague_count == CountIf(stps, is_vague)
    IN  IF stps = <<>> THEN Result(100, <<>>)
        ELSE IF vague_count * 2 > Len(stps)
        THEN Result(Max0(100 - 40), <<<<"Excessive vague or uncertain language">>>>)
        ELSE IF vague_count * 10 > Len(stps) * 3
        THEN Result(Max0(100 - 20), <<>>)
        ELSE Result(Max0(100), <<>>)

\* check_vague_statements(steps), lines 350-380.
check_vague_statements(stps) ==
    LET vague_count == CountIf(stps, is_vague)
    IN  IF stps = <<>> THEN Result(100, <<>>)
        ELSE IF vague_count * 2 > Len(stps)
        THEN Result(Max0(100 - 40), <<<<"Excessive vague or uncertain language">>>>)
        ELSE IF vague_count * 10 > Len(stps) * 3
        THEN Result(Max0(100 - 20), <<<<"Moderate use of vague language">>>>)
        ELSE Result(Max0(100), <<>>)

\* The categories and their rules, in the order of the dict literal of
\* evaluate_reasoning, lines 400-420.
Categories ==
    <<"logical_consistency", "completeness", "instruction_following", "hallucination_risk">>

RuleNames ==
    [logical_consistency |-> <<"step_count", "logical_flow", "contradictions", "answer_support">>,
     completeness |-> <<"missing_steps", "step_depth", "substance">>,
     instruction_following |-> <<"step_format", "explicit_numbering">>,
     hallucination_risk |-> <<"unsupported_claims", "vague_statements">>]

\* Fault-injected variant of category_issues: the entries of a category are
\* collected from its last rule to its first.
RECURSIVE category_issues_backwards(_, _, _)
category_issues_backwards(results, cat, k) ==
    IF k > Len(RuleNames[cat]) THEN <<>>
    ELSE LET rule_result == results[cat][RuleNames[cat][k]]
         IN  category_issues_backwards(results, cat, k + 1)
             \o (IF rule_result.issue # None
                 THEN <<(<<"[", cat, "] ">> \o rule_result.issue.text)>>
                 ELSE <<>>)

\* Lines 423-427: the entries "[<category>] <issue>" of the rules of one
\* category, from rule k on.
RECURSIVE category_issues(_, _, _)
category_issues(results, cat, k) ==
    IF k > Len(RuleNames[cat]) THEN <<>>
    ELSE LET rule_result == results[cat][RuleNames[cat][k]]
         IN  (IF rule_result.issue # None
              THEN <<(<<"[", cat, "] ">> \o rule_result.issue.text)>>
              ELSE <<>>)
             \o category_issues(results, cat, k + 1)

\* Fault-injected variant of evaluate_reasoning: without steps the rules that
\* read the steps are not run and their categories stay empty.
evaluate_reasoning_skipping(stps, ans, q, raw_reasoning) ==
    LET results ==
            [logical_consistency |->
                IF stps = <<>> THEN <<>>
                ELSE [step_count |-> check_step_count(stps),
                      logical_flow |-> check_logical_flow(stps),
                      contradictions |-> check_contradictions(stps),
                      answer_support |-> check_answer_support(stps, ans)],
             completeness |->
                IF stps = <<>> THEN <<>>
                ELSE [missing_steps |-> check_missing_steps(stps, q),
                      step_depth |-> check_step_depth(stps),
                      substance |-> check_reasoning_substance(stps)],
             instruction_following |->
                [step_format |-> check_step_format(raw_reasoning),
                 explicit_numbering |-> check_explicit_numbering(raw_reasoning)],
             hallucination_risk |->
                [unsupported_claims |-> check_unsupported_claims(stps),
                 vague_statements |-> check_vague_statements(stps)]]
    IN  [logical_consistency |-> results.logical_consistency,
         completeness |-> results.completeness,
         instruction_following |-> results.instruction_following,
         hallucination_risk |-> results.hallucination_risk,
         detected_issues |->
            category_issues(results, "instruction_following", 1)
            \o category_issues(results, "hallucination_risk", 1)]

\* evaluate_reasoning(steps, answer, question, raw_reasoning), lines 387-431.
evaluate_reasoning(stps, ans, q, raw_reasoning) ==
    LET results ==
            [logical_consistency |->
                [step_count |-> check_step_count(stps),
                 logical_flow |-> check_logical_flow(stps),
                 contradictions |-> check_contradictions(stps),
                 answer_support |-> check_answer_support(stps, ans)],
             completeness |->
                [missing_steps |-> check_missing_steps(stps, q),
                 step_depth |-> check_step_depth(stps),
                 substance |-> check_reasoning_substance(stps)],
             instruction_following |->
                [step_format |-> check_step_format(raw_reasoning),
                 explicit_numbering |-> check_explicit_numbering(raw_reasoning)],
             hallucination_risk |->
                [unsupported_claims |-> check_unsupported_claims(stps),
                 vague_statements |-> check_vague_statements(stps)]]
    IN  [logical_consistency |-> results.logical_consistency,
         completeness |-> results.completeness,
         instruction_following |-> results.instruction_following,
         hallucination_risk |-> results.hallucination_risk,
         detected_issues |->
            category_issues(results, "logical_consistency", 1)
            \o category_issues(results, "completeness", 1)
            \o category_issues(results, "instruction_following", 1)
            \o category_issues(results, "hallucination_risk", 1)]

(***************************************************************************)
(* Python's float (IEEE 754 binary64) as scorer.py uses it.  A natural     *)
(* number of any size is a sequence of limbs in base 2^15, least           *)
(* significant first, without leading zero limbs; a non-negative float is  *)
(* [m, e] with the value m * 2^e and m < 2^53, or m = 2^53 after a carry.  *)
(***************************************************************************)

LimbBase == 2 ^ 15

\* The bits of the significand of a binary64.
MantissaBits == 53

RECURSIVE BNorm(_)
BNorm(x) ==
    IF x # <<>> /\ x[Len(x)] = 0 THEN BNorm(SubSeq(x, 1, Len(x) - 1)) ELSE x

RECURSIVE BFromInt(_)
BFromInt(n) == IF n = 0 THEN <<>> ELSE <<n % LimbBase>> \o BFromInt(n \div LimbBase)

RECURSIVE BToInt(_)
BToInt(x) == IF x = <<>> THEN 0 ELSE Head(x) + LimbBase * BToInt(Tail(x))

Limb(x, i) == IF i <= Len(x) THEN x[i] ELSE 0

RECURSIVE BAddFrom(_, _, _, _)
BAddFrom(x, y, i, carry) ==
    IF i > Len(x) /\ i > Len(y) THEN (IF carry = 0 THEN <<>> ELSE <<carry>>)
    ELSE LET t == Limb(x, i) + Limb(y, i) + carry
         IN  <<t % LimbBase>> \o BAddFrom(x, y, i + 1, t \div LimbBase)

BAdd(x, y) == BNorm(BAddFrom(x, y, 1, 0))

\* x - y for x >= y.
RECURSIVE BSubFrom(_, _, _, _)
BSubFrom(x, y, i, borrow) ==
    IF i > Len(x) THEN <<>>
    ELSE LET t == Limb(x, i) - Limb(y, i) - borrow
         IN  <<(t + LimbBase) % LimbBase>> \o BSubFrom(x, y, i + 1, IF t < 0 THEN 1 ELSE 0)

BSub(x, y) == BNorm(BSubFrom(x, y, 1, 0))

\* x * k for 0 <= k < LimbBase.
RECURSIVE BMulSmallFrom(_, _, _, _)
BMulSmallFrom(x, k, i, carry) ==
    IF i > Len(x) THEN (IF carry = 0 THEN <<>> ELSE <<carry>>)
    ELSE LET t == x[i] * k + carry
         IN  <<t % LimbBase>> \o BMulSmallFrom(x, k, i + 1, t \div LimbBase)

BMulSmall(x, k) == BNorm(BMulSmallFrom(x, k, 1, 0))

RECURSIVE BMul(_, _)
BMul(x, y) ==
    IF y = <<>> THEN <<>>
    ELSE BAdd(BMulSmall(x, Head(y)), BNorm(<<0>> \o BMul(x, Tail(y))))

\* Quotient and remainder of x by d, 0 < d < LimbBase, limbs i down to 1.
RECURSIVE BDivSmallFrom(_, _, _, _)
BDivSmallFrom(x, d, i, rem) ==
    IF i = 0 THEN [q |-> <<>>, r |-> rem]
    ELSE LET t == rem * LimbBase + x[i]
             rest == BDivSmallFrom(x, d, i - 1, t % d)
         IN  [q |-> Append(rest.q, t \div d), r |-> rest.r]

BDivSmall(x, d) ==
    LET res == BDivSmallFrom(x, d, Len(x), 0) IN [q |-> BNorm(res.q), r |-> res.r]

\* -1, 0 or 1 as x < y, x = y or x > y; limbs i down to 1 of equal lengths.
RECURSIVE BCmpFrom(_, _, _)
BCmpFrom(x, y, i) ==
    IF i = 0 THEN 0
    ELSE IF x[i] < y[i] THEN -1
    ELSE IF x[i] > y[i] THEN 1
    ELSE BCmpFrom(x, y, i - 1)

BCmp(x, y) ==
    IF Len(x) < Len(y) THEN -1
    ELSE IF Len(x) > Len(y) THEN 1
    ELSE BCmpFrom(x, y, Len(x))

\* The number of bits of x.
BitLen(x) ==
    IF x = <<>> THEN 0
    ELSE 15 * (Len(x) - 1) + Min({k \in 1..15 : x[Len(x)] < 2 ^ k})

\* x * 2^s and floor(x / 2^s).
BShl(x, s) ==
    IF x = <<>> THEN <<>>
    ELSE [i \in 1..(s \div 15) |-> 0] \o BMulSmall(x, 2 ^ (s % 15))

BShr(x, s) ==
    IF s \div 15 >= Len(x) THEN <<>>
    ELSE BDivSmall(SubSeq(x, s \div 15 + 1, Len(x)), 2 ^ (s % 15)).q

BIsOdd(x) == x # <<>> /\ x[1] % 2 = 1

\* x / 2^s rounded to the nearest integer, ties to even.
RoundHalfEven(x, s) ==
    IF s = 0 THEN x
    ELSE LET q == BShr(x, s)
             c == BCmp(BSub(x, BShl(q, s)), BShl(<<1>>, s - 1))
         IN  IF c = 1 \/ (c = 0 /\ BIsOdd(q)) THEN BAdd(q, <<1>>) ELSE q

\* The float nearest to m * 2^e (round to nearest, ties to even).
FloatRound(m, e) ==
    IF BitLen(m) <= MantissaBits THEN [m |-> m, e |-> e]
    ELSE LET s == BitLen(m) - MantissaBits
         IN  [m |-> RoundHalfEven(m, s), e |-> e + s]

\* float(n) for an int n that a float holds exactly.
float(n) == [m |-> BFromInt(n), e |-> 0]

\* n / d of two positive ints, and the float literal with the decimal value
\* n / d: the float nearest to the quotient.  The quotient is taken with 70
\* more bits and a sticky bit for its remainder.
float_div(n, d) ==
    LET res == BDivSmall(BShl(BFromInt(n), 70), d)
        sticky == IF res.r = 0 THEN <<>> ELSE <<1>>
    IN  FloatRound(BAdd(BShl(res.q, 1), sticky), -71)

float_mul(a, b) == FloatRound(BMul(a.m, b.m), a.e + b.e)

float_add(a, b) ==
    LET e == IF a.e < b.e THEN a.e ELSE b.e
    IN  FloatRound(BAdd(BShl(a.m, a.e - e), BShl(b.m, b.e - e)), e)

\* a - b for a >= b.
float_sub(a, b) ==
    LET e == IF a.e < b.e THEN a.e ELSE b.e
    IN  FloatRound(BSub(BShl(a.m, a.e - e), BShl(b.m, b.e - e)), e)

\* a >= b
float_ge(a, b) ==
    LET e == IF a.e < b.e THEN a.e ELSE b.e
    IN  BCmp(BShl(a.m, a.e - e), BShl(b.m, b.e - e)) >= 0

\* round(x, 2) as its number of hundredths: the exact value of x is rounded
\* to the nearest multiple of 0.01, ties to even.
round2(x) ==
    IF x.e >= 0 THEN BToInt(BShl(BMulSmall(x.m, 100), x.e))
    ELSE BToInt(RoundHalfEven(BMulSmall(x.m, 100), -x.e))

(***************************************************************************)
(* scorer.py.  A score with two decimals is kept as its number of          *)
(* hundredths: 71.67 is 7167.                                              *)
(***************************************************************************)

\* config.py:19-27, the weights in hundredths and the threshold.
WeightLogicalConsistency == 35
WeightCompleteness == 25
WeightInstructionFollowing == 20
WeightHallucinationRisk == 20
GOOD_REASONING_THRESHOLD == 70

\* Fault-injected variant of RoundedMean: the mean is cut after two
\* decimals in place of being rounded.
RoundedMean_truncated(total, count) == (100 * total) \div count

\* round(sum(scores) / len(scores), 2) in hundredths, lines 27-48.
RoundedMean(total, count) == round2(float_div(total, count))

\* sum(rule["score"] for rule in rules.values()) over the rules of a category.
RECURSIVE SumScores(_, _, _)
SumScores(results, cat, k) ==
    IF k > Len(RuleNames[cat]) THEN 0
    ELSE results[cat][RuleNames[cat][k]].score + SumScores(results, cat, k + 1)

\* calculate_scores(evaluation_results), lines 9-49.
calculate_scores(results) ==
    [logical_consistency_score |->
        RoundedMean(SumScores(results, "logical_consistency", 1),
                    Len(RuleNames["logical_consistency"])),
     completeness_score |->
        RoundedMean(SumScores(results, "completeness", 1), Len(RuleNames["completeness"])),
     instruction_following_score |->
        RoundedMean(SumScores(results, "instruction_following", 1),
                    Len(RuleNames["instruction_following"])),
     hallucination_risk_score |->
        RoundedMean(SumScores(results, "hallucination_risk", 1),
                    Len(RuleNames["hallucination_risk"]))]

\* The float of a score kept in hundredths, and of a weight of config.py.
score_float(hundredths) == float_div(hundredths, 100)

\* Fault-injected variant of weighted_score: the hallucination risk is
\* weighted as it is, not as 100 less the risk.
weighted_score_uninverted(sc) ==
    float_add(
        float_add(
            float_add(
                float_mul(score_float(sc.logical_consistency_score),
                          score_float(WeightLogicalConsistency)),
                float_mul(score_float(sc.completeness_score),
                          score_float(WeightCompleteness))),
            float_mul(score_float(sc.instruction_following_score),
                      score_float(WeightInstructionFollowing))),
        float_mul(score_float(sc.hallucination_risk_score),
                  score_float(WeightHallucinationRisk)))

\* The weighted sum of lines 64-69 and 88-93, a float: the four products are
\* added from left to right.
weighted_score(sc) ==
    float_add(
        float_add(
            float_add(
                float_mul(score_float(sc.logical_consistency_score),
                          score_float(WeightLogicalConsistency)),
                float_mul(score_float(sc.completeness_score),
                          score_float(WeightCompleteness))),
            float_mul(score_float(sc.instruction_following_score),
                      score_float(WeightInstructionFollowing))),
        float_mul(float_sub(float(100), score_float(sc.hallucination_risk_score)),
                  score_float(WeightHallucinationRisk)))

\* Fault-injected variant of generate_verdict: the weighted sum has to exceed
\* the threshold.
generate_verdict_strict(sc) ==
    IF ~float_ge(float(GOOD_REASONING_THRESHOLD), weighted_score(sc))
    THEN "Good Reasoning" ELSE "Flawed Reasoning"

\* generate_verdict(scores), lines 52-75.
generate_verdict(sc) ==
    IF float_ge(weighted_score(sc), float(GOOD_REASONING_THRESHOLD))
    THEN "Good Reasoning" ELSE "Flawed Reasoning"

\* get_overall_score(scores), lines 78-95: round(weighted_score, 2), in hundredths.
get_overall_score(sc) == round2(weighted_score(sc))

(***************************************************************************)
(* logger.py and utils/helpers.py                                          *)
(***************************************************************************)

\* The header line df.to_csv(..., header=True) writes first.
HeaderRow == [header |-> TRUE]

\* "; ".join(data.get("detected_issues", [])), line 48.
RECURSIVE JoinEntries(_)
JoinEntries(entries) ==
    IF entries = <<>> THEN <<>>
    ELSE IF Len(entries) = 1 THEN Head(entries)
    ELSE Head(entries) \o <<"; ">> \o JoinEntries(Tail(entries))

\* row_data of lines 38-49, without the timestamp the logger reads off the clock.
log_row(data) ==
    [Question |-> data.question,
     FinalAnswer |-> data.final_answer,
     ReasoningExplanation |-> data.reasoning_explanation,
     LogicalConsistencyScore |-> data.logical_consistency_score,
     CompletenessScore |-> data.completeness_score,
     InstructionFollowingScore |-> data.instruction_following_score,
     HallucinationRiskScore |-> data.hallucination_risk_score,
     FinalVerdict |-> data.final_verdict,
     DetectedIssues |-> JoinEntries(data.detected_issues)]

\* log_evaluation(data), lines 19-60, on the file's lines; <<>> is "no file".
log_evaluation(file, data) ==
    IF file = <<>> THEN <<HeaderRow, log_row(data)>> ELSE Append(file, log_row(data))

\* validate_json_payload(data, ['question']), helpers.py:89-110.  A payload
\* is [is_dict], and for a dict [has_question], and then [qtype, qval]: a
\* str, or another JSON value with its truthiness.
validate_json_payload(data) ==
    IF ~data.is_dict THEN [is_valid |-> FALSE, error |-> "Payload must be a JSON object"]
    ELSE IF ~data.has_question
    THEN [is_valid |-> FALSE, error |-> "Missing required field: question"]
    ELSE IF \/ (data.qtype = "str" /\ IsBlank(data.qval))
            \/ (data.qtype = "int" /\ data.qval = 0)
    THEN [is_valid |-> FALSE, error |-> "Field 'question' cannot be empty"]
    ELSE [is_valid |-> TRUE, error |-> "None"]

(***************************************************************************)
(* Inputs                                                                  *)
(***************************************************************************)

\* The sequences over S of length at most n.
RECURSIVE SeqsUpTo(_, _)
SeqsUpTo(S, n) ==
    IF n = 0 THEN {<<>>}
    ELSE LET shorter == SeqsUpTo(S, n - 1)
         IN  shorter \cup {Append(x, e) : x \in shorter, e \in S}

\* Bounds of the inputs.
MaxRawParts == 2
MaxItems == 2
MaxSteps == 3
MaxRepeat == 6
MaxLogged == 1

txReasoningUpper == <<"R", "E", "A", "S", "O", "N", "I", "N", "G", ":">>
txReasoningMixed == <<"R", "e", "a", "s", "o", "n", "i", "n", "g", ":">>
txFinalAnswerUpper == <<"F", "I", "N", "A", "L", " ", "A", "N", "S", "W", "E", "R", ":">>
txFinalAnswerLower == <<"f", "i", "n", "a", "l", " ", "a", "n", "s", "w", "e", "r", ":">>
txFirstX == <<"F", "i", "r", "s", "t", ",", " ", "X", ".">>
txThenY == <<"T", "h", "e", "n", ",", " ", "Y", ".">>
txList2 == <<"1", ".", " ", "a", "\n", "2", ".", " ", "b">>
txList3 == <<"1", ".", " ", "a", "\n", "2", ".", " ", "b", "\n", "3", ".", " ", "c">>
txClearly == <<"C", "l", "e", "a", "r", "l", "y", " ", "i", "t", " ", "i", "s", " ", "4">>
txMaybe == <<"M", "a", "y", "b", "e", " ", "i", "t", " ", "m", "i", "g", "h", "t", " ", "b", "e", " ", "s", "o">>
txSince == <<"S", "i", "n", "c", "e", " ", "t", "h", "e", " ", "c", "o", "r", "e", " ", "d", "e", "f", "i", "n", "i", "t", "i", "o", "n", " ", "i", "m", "p", "l", "i", "e", "s", " ", "i", "t", ",", " ", "t", "h", "e", "n", " ", "2", " ", "+", " ", "2", " ", "=", " ", "4", " ", "b", "e", "c", "a", "u", "s", "e", " ", "o", "f", " ", "t", "h", "a", "t">>
txHowever == <<"H", "o", "w", "e", "v", "e", "r", ",", " ", "t", "h", "i", "s", " ", "i", "s", " ", "a", " ", "c", "o", "r", "r", "e", "c", "t", "i", "o", "n">>
txSentence == <<"l", "o", "n", "g", " ", "s", "e", "n", "t", "e", "n", "c", "e", " ", "h", "e", "r", "e", ".", " ">>
txHello == <<"h", "e", "l", "l", "o", " ", "w", "o", "r", "l", "d">>
txPlain == <<"p", "l", "a", "i", "n">>
txBecause == <<"I", "t", " ", "h", "o", "l", "d", "s", " ", "b", "e", "c", "a", "u", "s", "e", " ", "o", "f", " ", "t", "h", "a", "t">>
txClearlyKnown == <<"C", "l", "e", "a", "r", "l", "y", " ", "w", "e", " ", "k", "n", "o", "w", " ", "t", "h", "a", "t", " ", "i", "t", " ", "m", "u", "s", "t", " ", "b", "e">>
txClearlyWas == <<"C", "l", "e", "a", "r", "l", "y", " ", "i", "t", " ", "w", "a", "s", " ", "s", "o">>
txProbably == <<"T", "h", "e", "n", " ", "c", "l", "e", "a", "r", "l", "y", " ", "t", "h", "e", " ", "c", "o", "r", "e", " ", "d", "e", "f", "i", "n", "i", "t", "i", "o", "n", " ", "i", "m", "p", "l", "i", "e", "s", " ", "i", "t", " ", "i", "s", " ", "p", "r", "o", "b", "a", "b", "l", "y", " ", "2", " ", "+", " ", "2", " ", "=", " ", "4", " ", "d", "u", "e", " ", "t", "o", " ", "t", "h", "a", "t">>
txCoreDefinition == <<"c", "o", "r", "e", " ", "d", "e", "f", "i", "n", "i", "t", "i", "o", "n">>
txQuestionSum == <<"W", "h", "a", "t", " ", "i", "s", " ", "2", " ", "+", " ", "2", "?">>
txQuestionTomato == <<"I", "s", " ", "a", " ", "t", "o", "m", "a", "t", "o", " ", "a", " ", "f", "r", "u", "i", "t">>
txFourFruit == <<"f", "o", "u", "r", " ", "f", "r", "u", "i", "t">>

\* The example of the specification: numbered reasoning and a final answer.
CanonicalText ==
    Concat(<<txReasoningUpper, <<"\n", "1", ".", " ">>, txFirstX,
             <<"\n", "2", ".", " ">>, txThenY, <<"\n">>, txFinalAnswerUpper, <<"\n", "Z">>>>)

\* A response in the format of the prompt whose three steps draw no penalty.
GoodText ==
    Concat(<<txReasoningUpper, <<"\n", "1", ".", " ">>, txSince, <<".">>,
             <<"\n", "2", ".", " ">>, txSince, <<".">>,
             <<"\n", "3", ".", " ">>, txSince, <<".">>,
             <<"\n">>, txFinalAnswerUpper, <<"\n">>, <<"t", "h", "a", "t">>>>)

\* A response with lower-case markers, paragraphs, an unsupported and a vague step.
WeakText ==
    Concat(<<kwReasoning, <<" ">>, txClearly, <<"\n", "\n">>, txMaybe, <<"\n">>,
             txFinalAnswerLower, <<" ", "4">>>>)

\* The raw responses call_llm hands to the handler.
RawResponses ==
    { CanonicalText, GoodText, WeakText,
      <<>>, <<" ", "\n">>,
      txHello,
      txList3,
      txReasoningUpper \o <<"\n">> \o txList2,
      txFinalAnswerUpper \o <<" ", "Z">>,
      txFinalAnswerUpper \o <<" ", "Z", "\n">> \o txReasoningUpper \o <<" ">> \o txHello,
      txList2 \o <<"\n", "A", "n", "s", "w", "e", "r", ":", " ", "Z">>,
      txReasoningUpper \o <<" ">> \o txFinalAnswerUpper \o <<" ", "Z">> }

\* The JSON payloads of a request.
Payloads ==
    { [is_dict |-> FALSE],
      [is_dict |-> TRUE, has_question |-> FALSE],
      [is_dict |-> TRUE, has_question |-> TRUE, qtype |-> "str", qval |-> <<>>],
      [is_dict |-> TRUE, has_question |-> TRUE, qtype |-> "str", qval |-> <<" ", "\n">>],
      [is_dict |-> TRUE, has_question |-> TRUE, qtype |-> "int", qval |-> 0],
      [is_dict |-> TRUE, has_question |-> TRUE, qtype |-> "int", qval |-> 5],
      [is_dict |-> TRUE, has_question |-> TRUE, qtype |-> "str",
       qval |-> <<" ">> \o txQuestionSum \o <<" ">>],
      [is_dict |-> TRUE, has_question |-> TRUE, qtype |-> "str", qval |-> txQuestionTomato] }

\* Inputs of parse_llm_response: up to MaxRawParts sections in a row, a
\* section being a marker (or none) followed by a body.
SectionMarkers ==
    { <<>>, txReasoningUpper, txReasoningMixed \o <<"\n">>, txFinalAnswerUpper,
      txFinalAnswerLower \o <<" ">>, <<"A", "n", "s", "w", "e", "r", ":", " ">> }

SectionBodies == { <<>>, <<"X">>, <<" ">>, <<"\n">>, txList2 }

Sections == {m \o b : m \in SectionMarkers, b \in SectionBodies}

RawInputs == {Concat(ps) : ps \in SeqsUpTo(Sections, MaxRawParts)}

\* Inputs of split_reasoning_steps: up to MaxItems items in a row, an item
\* being a list marker (or none) followed by a body.
ItemMarkers ==
    { <<>>, <<"1", ".", " ">>, <<"\n", "2", ".", " ">>,
      <<"\n", "S", "t", "e", "p", " ", "1", ":", " ">>, <<"\n", "-", " ">>,
      <<"\n", "T", "h", "e", "n", ",", " ">>, <<"\n", "\n">> }

ItemBodies == { <<>>, <<"a">>, <<" ">>, txSentence }

Items == {m \o b : m \in ItemMarkers, b \in ItemBodies}

ReasoningInputs == {Concat(is) : is \in SeqsUpTo(Items, MaxItems)}

\* Inputs of the rule bank: every sequence of at most MaxSteps step texts,
\* and the repetitions of one text up to MaxRepeat times.
StepTexts == {txClearly, txMaybe, txSince, txHowever}

StepSeqs ==
    SeqsUpTo(StepTexts, MaxSteps)
    \cup {[i \in 1..k |-> t] : k \in 1..MaxRepeat,
                                t \in StepTexts \cup {txBecause, txClearlyKnown, txClearlyWas,
                                                  txProbably}}
    \cup {<<txClearlyKnown, txClearlyWas>>, <<txClearlyKnown, txClearly, txClearlyWas>>}

AnswerInputs == {<<>>, <<"Z">>, txFourFruit, txCoreDefinition}

\* Inputs of calculate_scores: the rule scores of one category range over
\* RuleScoreValues while the other categories are at 100.
RuleScoreValues == {0, 30, 85, 100}

CategoryScores(cat, v) ==
    [k \in {RuleNames[cat][i] : i \in 1..Len(RuleNames[cat])} |->
        LET score == v[CHOOSE i \in 1..Len(RuleNames[cat]) : RuleNames[cat][i] = k]
        IN  Result(score, IF score = 100 THEN <<>> ELSE <<<<"deficiency">>>>)]

AllHundred(cat) == [i \in 1..Len(RuleNames[cat]) |-> 100]

RuleScoreInputs ==
    UNION { { [c \in {Categories[j] : j \in 1..Len(Categories)} |->
                 CategoryScores(c, IF c = cat THEN v ELSE AllHundred(c))] :
              v \in [1..Len(RuleNames[cat]) -> RuleScoreValues] } :
            cat \in {Categories[j] : j \in 1..Len(Categories)} }

\* Inputs of generate_verdict and get_overall_score, in hundredths: a grid of
\* MaxGrid + 1 values from 0.00 to 100.00 with the values about the
\* threshold, and score sets whose exact weighted sum is 70 or lies halfway
\* between two hundredths.
MaxGrid == 2

ScoreValues == {(10000 * k) \div MaxGrid : k \in 0..MaxGrid} \cup {3000, 6999, 7000}

ScoreSet(lc, comp, inf, hr) ==
    [logical_consistency_score |-> lc, completeness_score |-> comp,
     instruction_following_score |-> inf, hallucination_risk_score |-> hr]

ScoreSets ==
    {ScoreSet(a, b, c, d) : a \in ScoreValues, b \in ScoreValues,
                            c \in ScoreValues, d \in ScoreValues}
    \cup {ScoreSet(9161, 7461, 7763, 8121), ScoreSet(9075, 9933, 4950, 8250),
          ScoreSet(8000, 8000, 8000, 2000), ScoreSet(0, 0, 0, 10000),
          ScoreSet(10, 0, 0, 10000), ScoreSet(2778, 2580, 7552, 3841)}

\* The scores each rule of evaluator.py can return, by category in the order
\* of RuleNames: the values of its return statements, and 100 less each
\* combination of its penalties.
RuleScores ==
    [logical_consistency |-> <<{0, 30, 60, 100}, {50, 65, 80, 85, 100},
                               {0, 20, 40, 60, 80, 100}, {0, 20, 50, 100}>>,
     completeness |-> <<{0, 50, 70, 80, 100}, {0, 50, 65, 70, 80, 85, 100},
                        {0, 65, 80, 85, 100}>>,
     instruction_following |-> <<{0, 60, 100}, {0, 20, 40, 70, 100}>>,
     hallucination_risk |-> <<{60, 70, 85, 100}, {60, 80, 100}>>]

\* The rule scores of one category, each rule taken on its own; this holds
\* every combination evaluate_reasoning returns.
RECURSIVE Tuples(_)
Tuples(sets) ==
    IF sets = <<>> THEN {<<>>}
    ELSE {<<x>> \o v : x \in Head(sets), v \in Tuples(Tail(sets))}

RECURSIVE TupleSum(_)
TupleSum(v) == IF v = <<>> THEN 0 ELSE Head(v) + TupleSum(Tail(v))

\* The totals sum(scores) of a category, and the category score
\* round(sum(scores) / len(scores), 2) of each, in hundredths.
CategoryTotals(cat) == {TupleSum(v) : v \in Tuples(RuleScores[cat])}

CategoryMeanOf ==
    [cat \in DOMAIN RuleScores |->
        [total \in CategoryTotals(cat) |-> RoundedMean(total, Len(RuleScores[cat]))]]

\* Rule scores of a category that add up to total.
RuleScoresOf(cat, total) == CHOOSE v \in Tuples(RuleScores[cat]) : TupleSum(v) = total

\* The totals of the four categories whose score set has an exact weighted
\* sum within MaxDistance hundredths of the threshold; the sum is kept in
\* units of 1/10000.
MaxDistance == 25

NearThreshold ==
    {x \in CategoryTotals("logical_consistency") \X CategoryTotals("completeness")
            \X CategoryTotals("instruction_following")
            \X CategoryTotals("hallucination_risk") :
        LET exact == WeightLogicalConsistency * CategoryMeanOf["logical_consistency"][x[1]]
                     + WeightCompleteness * CategoryMeanOf["completeness"][x[2]]
                     + WeightInstructionFollowing
                         * CategoryMeanOf["instruction_following"][x[3]]
                     + WeightHallucinationRisk
                         * (10000 - CategoryMeanOf["hallucination_risk"][x[4]])
            distance == exact - 10000 * GOOD_REASONING_THRESHOLD
        IN  distance <= 100 * MaxDistance /\ -distance <= 100 * MaxDistance}

\* Results of evaluate_reasoning with the totals of NearThreshold.
ProducibleInputs ==
    {[logical_consistency |->
         CategoryScores("logical_consistency", RuleScoresOf("logical_consistency", x[1])),
      completeness |->
         CategoryScores("completeness", RuleScoresOf("completeness", x[2])),
      instruction_following |->
         CategoryScores("instruction_following",
                        RuleScoresOf("instruction_following", x[3])),
      hallucination_risk |->
         CategoryScores("hallucination_risk", RuleScoresOf("hallucination_risk", x[4]))] :
        x \in NearThreshold}

QuestionInputs == {<<>>, txQuestionSum, txQuestionTomato}
RawReasoningInputs == {<<>>, txList3, txPlain}

(***************************************************************************)
(* app.py: the /evaluate handler, one action for each of its steps         *)
(***************************************************************************)

\* The results call_llm can return, llm_client.py:81-159.
LLMResults ==
    {[success |-> TRUE, raw_response |-> x, error |-> "None"] : x \in RawResponses}
    \cup {[success |-> FALSE, raw_response |-> <<>>, error |-> e] :
            e \in {"Request to Ollama timed out", "Ollama API returned status code 500"}}

\* jsonify({"success": False, "error": ...}), status
ErrorResponse(status, kind, detail) ==
    [status |-> status, success |-> FALSE, error |-> kind, detail |-> detail]

\* The number of data rows in the log file.
DataRows(file) == IF file = <<>> THEN 0 ELSE Len(file) - 1

\* Lines 33-43: read the payload, validate it, strip the question.  A question
\* that passes the validation and is no str has no strip(): line 43 raises
\* and the handler of lines 113-117 answers.
Receive(data) ==
    /\ pc \in {"idle", "done"}
    /\ DataRows(log) < MaxLogged
    /\ LET v == validate_json_payload(data)
       IN  IF ~v.is_valid
           THEN /\ response' = ErrorResponse(400, "InvalidInput", v.error)
                /\ question' = Unset
                /\ pc' = "done"
           ELSE IF data.qtype # "str"
           THEN /\ response' = ErrorResponse(500, "Internal server error", "AttributeError")
                /\ question' = Unset
                /\ pc' = "done"
           ELSE /\ response' = Unset
                /\ question' = strip(data.qval)
                /\ pc' = "call_llm"
    /\ llm_result' = Unset
    /\ raw_response' = Unset
    /\ parsed' = Unset
    /\ answer' = Unset
    /\ reasoning' = Unset
    /\ steps' = Unset
    /\ evaluation_results' = Unset
    /\ scores' = Unset
    /\ verdict' = Unset
    /\ overall_score' = Unset
    /\ detected_issues' = Unset
    /\ UNCHANGED log
    /\ UNCHANGED writers

\* Lines 46-54: call the LLM; a failed call ends the request with status 500.
CallLLM ==
    /\ pc = "call_llm"
    /\ \E r \in LLMResults :
          /\ llm_result' = r
          /\ IF ~r.success
             THEN /\ response' = ErrorResponse(500, "LLM call failed", r.error)
                  /\ pc' = "done"
                  /\ UNCHANGED raw_response
             ELSE /\ raw_response' = r.raw_response
                  /\ pc' = "parse"
                  /\ UNCHANGED response
    /\ UNCHANGED <<question, parsed, answer, reasoning, steps, evaluation_results,
                   scores, verdict, overall_score, detected_issues, log>>
    /\ UNCHANGED writers

\* Lines 57-59: parse, then subscript the result.  parsed['answer'] on None
\* raises TypeError, which lines 113-117 turn into a 500 response.
Parse ==
    /\ pc = "parse"
    /\ parsed' = parse_llm_response(raw_response)
    /\ IF parsed' = None
       THEN /\ response' = ErrorResponse(500, "Internal server error", "TypeError")
            /\ pc' = "done"
            /\ UNCHANGED <<answer, reasoning>>
       ELSE /\ answer' = parsed'.answer
            /\ reasoning' = parsed'.reasoning
            /\ pc' = "segment"
            /\ UNCHANGED response
    /\ UNCHANGED <<question, llm_result, raw_response, steps, evaluation_results,
                   scores, verdict, overall_score, detected_issues, log>>
    /\ UNCHANGED writers

\* Line 62.
Segment ==
    /\ pc = "segment"
    /\ steps' = split_reasoning_steps(reasoning)
    /\ pc' = "evaluate"
    /\ UNCHANGED <<question, llm_result, raw_response, parsed, answer, reasoning,
                   evaluation_results, scores, verdict, overall_score,
                   detected_issues, log, response>>
    /\ UNCHANGED writers

\* Line 65.
Evaluate ==
    /\ pc = "evaluate"
    /\ evaluation_results' = evaluate_reasoning(steps, answer, question, reasoning)
    /\ pc' = "score"
    /\ UNCHANGED <<question, llm_result, raw_response, parsed, answer, reasoning,
                   steps, scores, verdict, overall_score, detected_issues, log,
                   response>>
    /\ UNCHANGED writers

\* Lines 68-75.
Score ==
    /\ pc = "score"
    /\ scores' = calculate_scores(evaluation_results)
    /\ verdict' = generate_verdict(scores')
    /\ overall_score' = get_overall_score(scores')
    /\ detected_issues' = evaluation_results.detected_issues
    /\ pc' = "log"
    /\ UNCHANGED <<question, llm_result, raw_response, parsed, answer, reasoning,
                   steps, evaluation_results, log, response>>
    /\ UNCHANGED writers

\* Fault-injected variant of log_data: the record is filled before the
\* response is parsed, with the raw response as the answer.
log_data_raw ==
    [question |-> question,
     final_answer |-> raw_response,
     reasoning_explanation |-> reasoning,
     logical_consistency_score |-> scores.logical_consistency_score,
     completeness_score |-> scores.completeness_score,
     instruction_following_score |-> scores.instruction_following_score,
     hallucination_risk_score |-> scores.hallucination_risk_score,
     final_verdict |-> verdict,
     detected_issues |-> detected_issues]

\* log_data of lines 78-88.
log_data ==
    [question |-> question,
     final_answer |-> answer,
     reasoning_explanation |-> reasoning,
     logical_consistency_score |-> scores.logical_consistency_score,
     completeness_score |-> scores.completeness_score,
     instruction_following_score |-> scores.instruction_following_score,
     hallucination_risk_score |-> scores.hallucination_risk_score,
     final_verdict |-> verdict,
     detected_issues |-> detected_issues]

\* Line 89.
Log ==
    /\ pc = "log"
    /\ log' = log_evaluation(log, log_data)
    /\ pc' = "respond"
    /\ UNCHANGED <<question, llm_result, raw_response, parsed, answer, reasoning,
                   steps, evaluation_results, scores, verdict, overall_score,
                   detected_issues, response>>
    /\ UNCHANGED writers

\* Lines 92-111.
Respond ==
    /\ pc = "respond"
    /\ response' =
          [status |-> 200,
           success |-> TRUE,
           question |-> question,
           raw_llm_response |-> raw_response,
           final_answer |-> answer,
           reasoning_steps |-> steps,
           reasoning_explanation |-> reasoning,
           scores |-> [logical_consistency |-> scores.logical_consistency_score,
                       completeness |-> scores.completeness_score,
                       instruction_following |-> scores.instruction_following_score,
                       hallucination_risk |-> scores.hallucination_risk_score,
                       overall_score |-> overall_score],
           verdict |-> verdict,
           detected_issues |-> detected_issues,
           step_count |-> Len(steps)]
    /\ pc' = "done"
    /\ UNCHANGED <<question, llm_result, raw_response, parsed, answer, reasoning,
                   steps, evaluation_results, scores, verdict, overall_score,
                   detected_issues, log>>
    /\ UNCHANGED writers

Init ==
    /\ pc = "idle"
    /\ question = Unset
    /\ llm_result = Unset
    /\ raw_response = Unset
    /\ parsed = Unset
    /\ answer = Unset
    /\ reasoning = Unset
    /\ steps = Unset
    /\ evaluation_results = Unset
    /\ scores = Unset
    /\ verdict = Unset
    /\ overall_score = Unset
    /\ detected_issues = Unset
    /\ log = <<>>
    /\ response = Unset
    /\ writers = <<>>

Next ==
    \/ \E data \in Payloads : Receive(data)
    \/ CallLLM
    \/ Parse
    \/ Segment
    \/ Evaluate
    \/ Score
    \/ Log
    \/ Respond

Spec == Init /\ [][Next]_vars

(***************************************************************************)
(* The pure functions called on their own, on inputs drawn from the        *)
(* bounded input sets                                                      *)
(***************************************************************************)

\* parse_llm_response(raw_response); pc records where the call returned.
InitParse ==
    /\ pc = "call"
    /\ raw_response \in RawInputs
    /\ question = Unset
    /\ llm_result = Unset
    /\ parsed = Unset
    /\ answer = Unset
    /\ reasoning = Unset
    /\ steps = Unset
    /\ evaluation_results = Unset
    /\ scores = Unset
    /\ verdict = Unset
    /\ overall_score = Unset
    /\ detected_issues = Unset
    /\ log = <<>>
    /\ response = Unset
    /\ writers = <<>>

CallParse ==
    /\ pc = "call"
    /\ parsed' = parse_llm_response(raw_response)
    /\ pc' = parse_exit(raw_response)
    /\ UNCHANGED <<question, llm_result, raw_response, answer, reasoning, steps,
                   evaluation_results, scores, verdict, overall_score,
                   detected_issues, log, response>>
    /\ UNCHANGED writers

SpecParse == InitParse /\ [][CallParse]_vars

\* split_reasoning_steps(reasoning)
InitSegment ==
    /\ pc = "call"
    /\ reasoning \in ReasoningInputs
    /\ question = Unset
    /\ llm_result = Unset
    /\ raw_response = Unset
    /\ parsed = Unset
    /\ answer = Unset
    /\ steps = Unset
    /\ evaluation_results = Unset
    /\ scores = Unset
    /\ verdict = Unset
    /\ overall_score = Unset
    /\ detected_issues = Unset
    /\ log = <<>>
    /\ response = Unset
    /\ writers = <<>>

CallSplit ==
    /\ pc = "call"
    /\ steps' = split_reasoning_steps(reasoning)
    /\ pc' = "returned"
    /\ UNCHANGED <<question, llm_result, raw_response, parsed, answer, reasoning,
                   evaluation_results, scores, verdict, overall_score,
                   detected_issues, log, response>>
    /\ UNCHANGED writers

SpecSegment == InitSegment /\ [][CallSplit]_vars

\* evaluate_reasoning(steps, answer, question, raw_reasoning)
InitRules ==
    /\ pc = "call"
    /\ steps \in StepSeqs
    /\ answer \in AnswerInputs
    /\ question \in QuestionInputs
    /\ reasoning \in RawReasoningInputs
    /\ llm_result = Unset
    /\ raw_response = Unset
    /\ parsed = Unset
    /\ evaluation_results = Unset
    /\ scores = Unset
    /\ verdict = Unset
    /\ overall_score = Unset
    /\ detected_issues = Unset
    /\ log = <<>>
    /\ response = Unset
    /\ writers = <<>>

CallEvaluate ==
    /\ pc = "call"
    /\ evaluation_results' = evaluate_reasoning(steps, answer, question, reasoning)
    /\ pc' = "returned"
    /\ UNCHANGED <<question, llm_result, raw_response, parsed, answer, reasoning,
                   steps, scores, verdict, overall_score, detected_issues, log,
                   response>>
    /\ UNCHANGED writers

SpecRules == InitRules /\ [][CallEvaluate]_vars

\* calculate_scores(evaluation_results), then generate_verdict(scores) and
\* get_overall_score(scores).  The scorer is called on the rule scores of an
\* evaluation, or on a score set handed to it directly.
InitScore ==
    /\ \/ pc = "call" /\ evaluation_results \in RuleScoreInputs /\ scores = Unset
       \/ pc = "scored" /\ evaluation_results = Unset /\ scores \in ScoreSets
    /\ question = Unset
    /\ llm_result = Unset
    /\ raw_response = Unset
    /\ parsed = Unset
    /\ answer = Unset
    /\ reasoning = Unset
    /\ steps = Unset
    /\ verdict = Unset
    /\ overall_score = Unset
    /\ detected_issues = Unset
    /\ log = <<>>
    /\ response = Unset
    /\ writers = <<>>

CallCalculate ==
    /\ pc = "call"
    /\ scores' = calculate_scores(evaluation_results)
    /\ pc' = "scored"
    /\ UNCHANGED <<question, llm_result, raw_response, parsed, answer, reasoning,
                   steps, evaluation_results, verdict, overall_score,
                   detected_issues, log, response>>
    /\ UNCHANGED writers

CallVerdict ==
    /\ pc = "scored"
    /\ verdict' = generate_verdict(scores)
    /\ overall_score' = get_overall_score(scores)
    /\ pc' = "returned"
    /\ UNCHANGED <<question, llm_result, raw_response, parsed, answer, reasoning,
                   steps, evaluation_results, scores, detected_issues, log,
                   response>>
    /\ UNCHANGED writers

NextScore == CallCalculate \/ CallVerdict

SpecScore == InitScore /\ [][NextScore]_vars

\* calculate_scores, then generate_verdict and get_overall_score, on the
\* results the rule bank can return about the threshold.
InitVerdict ==
    /\ pc = "call"
    /\ evaluation_results \in ProducibleInputs
    /\ scores = Unset
    /\ question = Unset
    /\ llm_result = Unset
    /\ raw_response = Unset
    /\ parsed = Unset
    /\ answer = Unset
    /\ reasoning = Unset
    /\ steps = Unset
    /\ verdict = Unset
    /\ overall_score = Unset
    /\ detected_issues = Unset
    /\ log = <<>>
    /\ response = Unset
    /\ writers = <<>>

SpecVerdict == InitVerdict /\ [][NextScore]_vars

(***************************************************************************)
(* logger.py: log_evaluation called by concurrent requests.  app.run of     *)
(* app.py:158 serves each request in a thread of its own, and every request *)
(* reaches line 89 with its own log_data.                                   *)
(***************************************************************************)

\* The greatest number of concurrent calls.
MaxWriters == 4

\* The log_data of request t, lines 78-88.
LogData(t) ==
    [question |-> <<"q", ToString(t)>>,
     final_answer |-> <<"4">>,
     reasoning_explanation |-> txPlain,
     logical_consistency_score |-> 10000,
     completeness_score |-> 10000,
     instruction_following_score |-> 10000,
     hallucination_risk_score |-> 10000,
     final_verdict |-> "Good Reasoning",
     detected_issues |-> <<>>]

\* No log file, and one to MaxWriters calls about to start.
InitLog ==
    /\ pc = "log"
    /\ writers \in {[t \in 1..n |-> [pc |-> "call", data |-> LogData(t)]] : n \in 1..MaxWriters}
    /\ log = <<>>
    /\ question = Unset
    /\ llm_result = Unset
    /\ raw_response = Unset
    /\ parsed = Unset
    /\ answer = Unset
    /\ reasoning = Unset
    /\ steps = Unset
    /\ evaluation_results = Unset
    /\ scores = Unset
    /\ verdict = Unset
    /\ overall_score = Unset
    /\ detected_issues = Unset
    /\ response = Unset

\* Line 55: os.path.exists(LOG_FILE_PATH) picks the branch.
LogCheck(t) ==
    /\ writers[t].pc = "call"
    /\ writers' = [writers EXCEPT ![t].pc = IF log # <<>> THEN "append" ELSE "create"]
    /\ UNCHANGED <<pc, question, llm_result, raw_response, parsed, answer, reasoning,
                   steps, evaluation_results, scores, verdict, overall_score,
                   detected_issues, log, response>>

\* Line 57: to_csv(mode='a', header=False) adds the row at the end of the file.
LogAppend(t) ==
    /\ writers[t].pc = "append"
    /\ log' = Append(log, log_row(writers[t].data))
    /\ writers' = [writers EXCEPT ![t].pc = "returned"]
    /\ UNCHANGED <<pc, question, llm_result, raw_response, parsed, answer, reasoning,
                   steps, evaluation_results, scores, verdict, overall_score,
                   detected_issues, response>>

\* Line 60: to_csv(mode='w', header=True) truncates the file and writes the
\* header and the row.  The call is taken as one step; taken as an open and
\* a write it has these behaviours and more.
LogCreate(t) ==
    /\ writers[t].pc = "create"
    /\ log' = <<HeaderRow, log_row(writers[t].data)>>
    /\ writers' = [writers EXCEPT ![t].pc = "returned"]
    /\ UNCHANGED <<pc, question, llm_result, raw_response, parsed, answer, reasoning,
                   steps, evaluation_results, scores, verdict, overall_score,
                   detected_issues, response>>

NextLog ==
    \/ \E t \in DOMAIN writers : LogCheck(t)
    \/ \E t \in DOMAIN writers : LogAppend(t)
    \/ \E t \in DOMAIN writers : LogCreate(t)

SpecLog == InitLog /\ [][NextLog]_vars

(***************************************************************************)
(* Properties                                                              *)
(***************************************************************************)

\* C1: parse_llm_response is total: for every raw string the call returns a
\* record with both fields 'answer' and 'reasoning', never None.
\* parse_llm_response does not have this property: text without the block
\* pair runs off the end of the function body.
C1_ParseIsTotal ==
    pc # "call" => (parsed # None /\ DOMAIN parsed = {"answer", "reasoning"})

\* C2: once the LLM fetch has succeeded, the request ends in a success
\* response with scores, verdict and issue list, whatever the raw text.
\* The handler does not have this property: parsed['answer'] raises on None.
C2_PipelineCompletes ==
    (pc = "done" /\ llm_result # Unset /\ llm_result.success)
        => (/\ response.success
            /\ {"scores", "verdict", "detected_issues"} \subseteq DOMAIN response)

\* The reasoning capture of C3: the text after the first 'REASONING:' up to
\* the first later 'FINAL ANSWER:' or the end of the text, trimmed.
C3_ReasoningCapture(raw) ==
    LET i == FindCI(raw, kwReasoning, 1)
        j == FindCI(raw, kwFinalAnswer, i + Len(kwReasoning))
    IN  strip(Slice(raw, i + Len(kwReasoning), IF j = 0 THEN Len(raw) ELSE j - 1))

\* The answer capture of C3: the text after the first 'FINAL ANSWER:', trimmed.
C3_AnswerCapture(raw) ==
    strip(Slice(raw, FindCI(raw, kwFinalAnswer, 1) + Len(kwFinalAnswer), Len(raw)))

C3_HasBothCaptures(raw) ==
    /\ FindCI(raw, kwReasoning, 1) # 0
    /\ FindCI(raw, kwFinalAnswer, 1) # 0
    /\ C3_ReasoningCapture(raw) # <<>>
    /\ C3_AnswerCapture(raw) # <<>>

\* C3: when the raw text holds (in any case) a 'REASONING:' marker followed by
\* non-blank text up to the first later 'FINAL ANSWER:' marker or the end of
\* the text, and a 'FINAL ANSWER:' marker followed by non-blank text,
\* parse_llm_response returns at line 40 with exactly those two captures,
\* trimmed.
C3_ExplicitBlocksReturned ==
    (pc # "call" /\ C3_HasBothCaptures(raw_response))
        => (/\ pc = "explicit"
            /\ parsed = [answer |-> C3_AnswerCapture(raw_response),
                         reasoning |-> C3_ReasoningCapture(raw_response)])

\* A call on text with both blocks, the reasoning block of more than one line,
\* has returned.
C3_Witness ==
    /\ pc = "explicit"
    /\ parsed.reasoning = txList2
    /\ parsed.answer = <<"X">>

\* C4: for an empty or whitespace-only raw response parse_llm_response returns
\* answer "" and reasoning "" at line 22, before any extraction strategy.
C4_BlankReturnsEmpty ==
    (pc # "call" /\ \A i \in 1..Len(raw_response) : raw_response[i] \in Whitespace)
        => (/\ pc = "blank"
            /\ parsed = [answer |-> <<>>, reasoning |-> <<>>])

\* A call on whitespace-only text that is not empty has returned.
C4_Witness ==
    /\ pc = "blank"
    /\ Len(raw_response) > 0
    /\ parsed = [answer |-> <<>>, reasoning |-> <<>>]

\* The strategies of the cascade in their fixed order, and the output of each.
C5_Order == <<"numbered", "step", "bullet", "ordinal", "paragraphs", "sentences">>

C5_Output(kind, r) ==
    CASE kind = "paragraphs" -> paragraphs(r)
      [] kind = "sentences"  -> sentences(r)
      [] OTHER               -> MapStrip(ListFindAll(kind, r, 1))

C5_Accepted(r) == {k \in 1..Len(C5_Order) : Len(C5_Output(C5_Order[k], r)) >= 2}

\* C5: split_reasoning_steps returns the output of exactly one strategy, the
\* first in the fixed order whose result has at least 2 segments; when no
\* strategy has 2 segments it returns the final fallback, the whole trimmed
\* text as a single step (no step for blank text).
C5_FirstAcceptedStrategy ==
    pc = "returned" =>
        IF C5_Accepted(reasoning) = {}
        THEN steps = (IF strip(reasoning) = <<>> THEN <<>> ELSE <<strip(reasoning)>>)
        ELSE steps = C5_Output(C5_Order[Min(C5_Accepted(reasoning))], reasoning)

\* The numbered strategy had a single match, was rejected, and a later
\* strategy supplied the steps.
C5_Witness ==
    /\ pc = "returned"
    /\ Len(ListFindAll("numbered", reasoning, 1)) = 1
    /\ Len(steps) >= 2

\* C6: every step split_reasoning_steps returns is a non-empty string without
\* leading or trailing whitespace.  split_reasoning_steps does not have this
\* property: a last list item that is all whitespace is captured and, once
\* trimmed, returned as the empty step.
C6_StepsNonEmptyTrimmed ==
    pc = "returned" =>
        \A i \in 1..Len(steps) :
            /\ steps[i] # <<>>
            /\ steps[i][1] \notin Whitespace
            /\ steps[i][Len(steps[i])] \notin Whitespace

\* C7: for the text 'REASONING:\n1. First, X.\n2. Then, Y.\nFINAL ANSWER:\nZ'
\* parse_llm_response yields answer 'Z' and a reasoning holding both numbered
\* lines, and split_reasoning_steps on that reasoning yields exactly the steps
\* 'First, X.' and 'Then, Y.' in this order.
C7_CanonicalExample ==
    /\ (pc \in {"segment", "evaluate", "score", "log", "respond"}
            /\ raw_response = CanonicalText)
        => (/\ answer = <<"Z">>
            /\ Contains(reasoning, <<"1", ".", " ">> \o txFirstX)
            /\ Contains(reasoning, <<"2", ".", " ">> \o txThenY))
    /\ (pc \in {"evaluate", "score", "log", "respond"} /\ raw_response = CanonicalText)
        => steps = <<txFirstX, txThenY>>

\* The handler has parsed and segmented the canonical text.
C7_Witness ==
    /\ pc = "evaluate"
    /\ raw_response = CanonicalText
    /\ Len(steps) = 2

\* The result of every rule of an evaluation.
RuleResults(results) ==
    {results[Categories[c]][RuleNames[Categories[c]][k]] :
        <<c, k>> \in {x \in (1..Len(Categories)) \X (1..4) :
                        x[2] <= Len(RuleNames[Categories[x[1]]])}}

\* C8: the score of each of the eleven rules is an integer in 0..100, for
\* every step sequence, answer, question and raw reasoning, empty ones
\* included.
C8_ScoresInRange ==
    pc = "returned" =>
        /\ Cardinality({<<c, k>> \in (1..Len(Categories)) \X (1..4) :
                          k <= Len(RuleNames[Categories[c]])}) = 11
        /\ \A r \in RuleResults(evaluation_results) : r.score \in 0..100

\* Six steps each holding a contradiction marker: the penalties add up to
\* more than 100 and the score is clamped at 0, next to a rule at 100.
C8_Witness ==
    /\ pc = "returned"
    /\ Len(steps) = 6
    /\ evaluation_results.logical_consistency.contradictions.score = 0
    /\ evaluation_results.logical_consistency.step_count.score = 100

\* C9: the issue of a rule is None exactly when its score is 100, and is a
\* non-empty string whenever the score is below 100.
C9_IssueIffDeficiency ==
    pc = "returned" =>
        \A r \in RuleResults(evaluation_results) :
            /\ (r.issue = None) <=> (r.score = 100)
            /\ r.score < 100 =>
                  /\ r.issue # None
                  /\ r.issue.text # <<>>
                  /\ \A i \in 1..Len(r.issue.text) : r.issue.text[i] # ""

\* An evaluation in which the vague-language rule took its 20-point branch
\* and reported it, while the unsupported-claims rule found nothing.
C9_Witness ==
    /\ pc = "returned"
    /\ evaluation_results.hallucination_risk.vague_statements.score = 80
    /\ evaluation_results.hallucination_risk.vague_statements.issue # None
    /\ evaluation_results.hallucination_risk.unsupported_claims.issue = None

\* The number of steps each hallucination-risk rule flags.
C10_FlaggedUnsupported(stps) == Cardinality({i \in 1..Len(stps) : is_unsupported(stps[i])})
C10_FlaggedVague(stps) == Cardinality({i \in 1..Len(stps) : is_vague(stps[i])})

\* C10: the score of each hallucination-risk rule grows with risk: among step
\* sequences of equal length, one in which more steps are flagged never gets
\* a lower rule score than one in which fewer are flagged.  The rules do not
\* have this property: each flagged step lowers the score.
C10_ScoreGrowsWithRisk ==
    pc = "returned" =>
        \A t \in StepSeqs :
            Len(t) = Len(steps) =>
                /\ C10_FlaggedUnsupported(t) >= C10_FlaggedUnsupported(steps)
                      => check_unsupported_claims(t).score
                           >= evaluation_results.hallucination_risk.unsupported_claims.score
                /\ C10_FlaggedVague(t) >= C10_FlaggedVague(steps)
                      => check_vague_statements(t).score
                           >= evaluation_results.hallucination_risk.vague_statements.score

\* The weighted sum of a score set in exact arithmetic, in units of 1/10000:
\* scores in hundredths times weights in hundredths.
ExactWeightedSum(sc) ==
    35 * sc.logical_consistency_score + 25 * sc.completeness_score
    + 20 * sc.instruction_following_score + 20 * (10000 - sc.hallucination_risk_score)

\* w / 100 rounded to an integer, a tie going up, and a tie going to even.
RoundHalfUp(w) == (w + 50) \div 100
RoundHalfToEven(w) ==
    IF w % 100 = 50 /\ (w \div 100) % 2 = 0 THEN w \div 100 ELSE (w + 50) \div 100

\* C11: get_overall_score equals 0.35*logical_consistency + 0.25*completeness
\* + 0.20*instruction_following + 0.20*(100 - hallucination_risk) rounded to
\* 2 decimals (a tie rounded up or to even), the configured weights sum to
\* 1.0, and the overall score lies in [0,100].  get_overall_score does not
\* have this property: the sum is taken in binary floating point, and a sum
\* that is exactly halfway between two hundredths can come out just below
\* the tie and be rounded down.
C11_OverallIsRoundedWeightedSum ==
    pc = "returned" =>
        /\ WeightLogicalConsistency + WeightCompleteness
             + WeightInstructionFollowing + WeightHallucinationRisk = 100
        /\ <<WeightLogicalConsistency, WeightCompleteness,
             WeightInstructionFollowing, WeightHallucinationRisk>> = <<35, 25, 20, 20>>
        /\ overall_score \in {RoundHalfUp(ExactWeightedSum(scores)),
                              RoundHalfToEven(ExactWeightedSum(scores))}
        /\ overall_score \in 0..10000

\* C12: generate_verdict returns 'Good Reasoning' if and only if the overall
\* score get_overall_score reports is at least 70, and 'Flawed Reasoning'
\* otherwise.  The scorer does not have this property: generate_verdict
\* compares the unrounded sum, so a sum in [69.995, 70) is 'Flawed Reasoning'
\* with a reported overall score of 70.0.
C12_VerdictIffOverallAtLeast70 ==
    pc = "returned" =>
        /\ verdict \in {"Good Reasoning", "Flawed Reasoning"}
        /\ (verdict = "Good Reasoning") <=> (overall_score >= 100 * GOOD_REASONING_THRESHOLD)

\* The sum of the rule scores of each category, and the number of its rules.
C13_Totals(results) ==
    [logical_consistency_score |->
        <<results.logical_consistency.step_count.score
            + results.logical_consistency.logical_flow.score
            + results.logical_consistency.contradictions.score
            + results.logical_consistency.answer_support.score, 4>>,
     completeness_score |->
        <<results.completeness.missing_steps.score
            + results.completeness.step_depth.score
            + results.completeness.substance.score, 3>>,
     instruction_following_score |->
        <<results.instruction_following.step_format.score
            + results.instruction_following.explicit_numbering.score, 2>>,
     hallucination_risk_score |->
        <<results.hallucination_risk.unsupported_claims.score
            + results.hallucination_risk.vague_statements.score, 2>>]

\* C13: each of the four category scores calculate_scores returns is the
\* arithmetic mean of the category's rule scores rounded to 2 decimals (the
\* hundredth nearest to total / count), and lies in [0,100] when every rule
\* score does.
C13_CategoryScoresAreRoundedMeans ==
    (pc \in {"scored", "returned"} /\ evaluation_results # Unset) =>
        /\ DOMAIN scores = DOMAIN C13_Totals(evaluation_results)
        /\ \A k \in DOMAIN scores :
              LET total == C13_Totals(evaluation_results)[k][1]
                  count == C13_Totals(evaluation_results)[k][2]
                  diff == scores[k] * count - 100 * total
              IN  /\ 2 * diff <= count
                  /\ -2 * diff <= count
                  /\ scores[k] \in 0..10000

\* calculate_scores has returned a mean that had to be rounded up, 71.67 for
\* the rule scores 100, 30 and 85, next to categories at 100.
C13_Witness ==
    /\ pc = "scored"
    /\ evaluation_results # Unset
    /\ scores.completeness_score = 7167
    /\ scores.logical_consistency_score = 10000

\* The entry of one rule in detected_issues: none without an issue.
C14_Entry(cat, rule_result) ==
    IF rule_result.issue = None THEN <<>>
    ELSE <<(<<"[", cat, "] ">> \o rule_result.issue.text)>>

\* C14: detected_issues holds exactly one entry '[<category>] <issue>' for
\* each rule whose issue is present, in the order logical_consistency,
\* completeness, instruction_following, hallucination_risk and, within a
\* category, in the order the rules are declared; a rule without an issue
\* has no entry.
C14_DetectedIssuesInDeclarationOrder ==
    pc = "returned" =>
        LET r == evaluation_results
        IN  r.detected_issues =
                C14_Entry("logical_consistency", r.logical_consistency.step_count)
                \o C14_Entry("logical_consistency", r.logical_consistency.logical_flow)
                \o C14_Entry("logical_consistency", r.logical_consistency.contradictions)
                \o C14_Entry("logical_consistency", r.logical_consistency.answer_support)
                \o C14_Entry("completeness", r.completeness.missing_steps)
                \o C14_Entry("completeness", r.completeness.step_depth)
                \o C14_Entry("completeness", r.completeness.substance)
                \o C14_Entry("instruction_following", r.instruction_following.step_format)
                \o C14_Entry("instruction_following", r.instruction_following.explicit_numbering)
                \o C14_Entry("hallucination_risk", r.hallucination_risk.unsupported_claims)
                \o C14_Entry("hallucination_risk", r.hallucination_risk.vague_statements)

\* An evaluation with two issues in one category around rules without one,
\* and an issue in a later category.
C14_Witness ==
    /\ pc = "returned"
    /\ evaluation_results.logical_consistency.step_count.issue # None
    /\ evaluation_results.logical_consistency.logical_flow.issue # None
    /\ evaluation_results.logical_consistency.contradictions.issue = None
    /\ evaluation_results.completeness.step_depth.issue # None
    /\ evaluation_results.hallucination_risk.vague_statements.issue # None
    /\ Len(evaluation_results.detected_issues) >= 4

\* C15: for every input, degenerate ones included, evaluate_reasoning returns
\* the four categories with their fixed rule keys (4, 3, 2 and 2 rules), each
\* rule with a score.
C15_AllRulesRun ==
    pc = "returned" =>
        LET r == evaluation_results
        IN  /\ {"logical_consistency", "completeness", "instruction_following",
                "hallucination_risk"} \subseteq DOMAIN r
            /\ DOMAIN r.logical_consistency =
                  {"step_count", "logical_flow", "contradictions", "answer_support"}
            /\ DOMAIN r.completeness = {"missing_steps", "step_depth", "substance"}
            /\ DOMAIN r.instruction_following = {"step_format", "explicit_numbering"}
            /\ DOMAIN r.hallucination_risk = {"unsupported_claims", "vague_statements"}
            /\ \A c \in {"logical_consistency", "completeness", "instruction_following",
                         "hallucination_risk"} :
                  \A k \in DOMAIN r[c] : "score" \in DOMAIN r[c][k] /\ r[c][k].score \in Int

\* The evaluation of no steps, an empty answer, an empty question and an
\* empty reasoning has returned.
C15_Witness ==
    /\ pc = "returned"
    /\ steps = <<>> /\ answer = <<>> /\ question = <<>> /\ reasoning = <<>>
    /\ evaluation_results.logical_consistency.step_count.score = 0

\* A payload whose question is missing or blank.
C16_MissingOrBlank(d) ==
    \/ ~d.is_dict
    \/ ~d.has_question
    \/ (d.qtype = "str" /\ \A i \in 1..Len(d.qval) : d.qval[i] \in Whitespace)

\* The step that receives such a payload answers 400 and starts nothing.
C16_RejectedBeforePipeline ==
    \A d \in Payloads :
        (Receive(d) /\ C16_MissingOrBlank(d)) =>
            /\ pc' = "done"
            /\ response'.status = 400
            /\ ~response'.success
            /\ llm_result' = Unset
            /\ evaluation_results' = Unset
            /\ log' = log

C17_StageOrder ==
    <<pc, pc'>> \in
        { <<"idle", "call_llm">>, <<"done", "call_llm">>, <<"call_llm", "parse">>,
          <<"parse", "segment">>, <<"segment", "evaluate">>, <<"evaluate", "score">>,
          <<"score", "log">>, <<"log", "respond">>, <<"respond", "done">>,
          <<"idle", "done">>, <<"done", "done">>, <<"call_llm", "done">>,
          <<"parse", "done">> }

\* What has run when a stage is about to run: nothing after it.
C17_NothingAhead ==
    /\ pc = "call_llm" => llm_result = Unset /\ parsed = Unset
    /\ pc = "parse" => llm_result.success /\ parsed = Unset /\ steps = Unset
    /\ pc = "segment" => parsed # Unset /\ steps = Unset /\ evaluation_results = Unset
    /\ pc = "evaluate" => evaluation_results = Unset /\ scores = Unset
    /\ pc = "score" => evaluation_results # Unset /\ scores = Unset /\ verdict = Unset
    /\ pc \in {"call_llm", "parse", "segment", "evaluate", "score", "log", "respond"}
          => response = Unset

\* A failed fetch ends the request at once, with an error and no log write.
C17_FetchFailureEnds ==
    (pc = "call_llm" /\ ~llm_result'.success) =>
        /\ pc' = "done"
        /\ ~response'.success
        /\ parsed' = Unset /\ steps' = Unset /\ evaluation_results' = Unset
        /\ scores' = Unset
        /\ log' = log

\* The log changes in the log stage only, by one data row.
C17_OneLogWrite ==
    log' # log => (pc = "log" /\ pc' = "respond" /\ DataRows(log') = DataRows(log) + 1)

\* A success response repeats what the last row of the log holds.
C17_ResponseAsLogged ==
    (pc = "done" /\ response.success) =>
        /\ DataRows(log) >= 1
        /\ LET row == log[Len(log)]
           IN  /\ row.FinalAnswer = response.final_answer
               /\ row.ReasoningExplanation = response.reasoning_explanation
               /\ row.LogicalConsistencyScore = response.scores.logical_consistency
               /\ row.CompletenessScore = response.scores.completeness
               /\ row.InstructionFollowingScore = response.scores.instruction_following
               /\ row.HallucinationRiskScore = response.scores.hallucination_risk
               /\ row.FinalVerdict = response.verdict
               /\ row.DetectedIssues = JoinEntries(response.detected_issues)

\* C17: in every /evaluate request the stages run in the order validate,
\* fetch, split, segment, rule bank, aggregate, log, respond; a fetch failure
\* ends the request with an error before any pipeline stage runs and without
\* a log write; a success response is sent only after exactly one
\* log_evaluation call that carries the same answer, reasoning, four scores,
\* verdict and issues as the response.
C17_StagesInOrderAndLoggedOnce ==
    /\ [][C17_StageOrder /\ C17_FetchFailureEnds /\ C17_OneLogWrite]_vars
    /\ [](C17_NothingAhead /\ C17_ResponseAsLogged)

\* A request has ended in a success response with issues, its row logged.
C17_Witness ==
    /\ pc = "done"
    /\ response.success
    /\ DataRows(log) = 1
    /\ Len(response.detected_issues) > 0
    /\ response.final_answer # <<>>

\* C18: check_step_count maps the number of steps to its score: 0 steps give
\* 0, 1 step gives 30, 2 steps give 60, 3 or more steps give 100 with no
\* issue.
C18_StepCountScore ==
    pc = "returned" =>
        LET r == evaluation_results.logical_consistency.step_count
            n == Len(steps)
        IN  /\ n = 0 => r.score = 0
            /\ n = 1 => r.score = 30
            /\ n = 2 => r.score = 60
            /\ n >= 3 => (r.score = 100 /\ r.issue = None)

\* Four steps have been counted.
C18_Witness ==
    /\ pc = "returned"
    /\ Len(steps) = 4
    /\ evaluation_results.logical_consistency.step_count.score = 100

\* The causal connectives, and the number of their occurrences in the joined
\* lower-case step text, a repeated connective counted each time.
C19_Connectives ==
    << <<"b", "e", "c", "a", "u", "s", "e">>, <<"s", "i", "n", "c", "e">>,
       <<"i", "m", "p", "l", "i", "e", "s">>, <<"c", "a", "u", "s", "e", "s">>,
       <<"l", "e", "a", "d", "s", " ", "t", "o">>,
       <<"r", "e", "s", "u", "l", "t", " ", "o", "f">>, <<"d", "u", "e", " ", "t", "o">> >>

C19_Occurrences(stps) ==
    LET text == lower(JoinSpace(stps))
    IN  Cardinality({x \in (1..Len(text)) \X (1..Len(C19_Connectives)) :
                        StartsAt(text, x[1], C19_Connectives[x[2]])})

\* The 15-point causal penalty leaves its issue.
C19_PenaltyApplied(r) ==
    /\ r.issue # None
    /\ \E i \in 1..Len(r.issue.text) :
          r.issue.text[i] = "Weak causal reasoning (few 'because', 'since', etc.)"

\* C19: for a non-empty step sequence check_reasoning_substance applies the
\* 15-point causal penalty exactly when the occurrences of causal
\* connectives in the joined step text, repeated uses counted each time, are
\* fewer than half the step count.  check_reasoning_substance does not have
\* this property: it counts how many of the seven connectives are present,
\* so three steps that each use 'because' count as one.
C19_CausalPenaltyByOccurrences ==
    (pc = "returned" /\ steps # <<>>) =>
        (C19_PenaltyApplied(evaluation_results.completeness.substance)
            <=> 2 * C19_Occurrences(steps) < Len(steps))

\* The steps holding one of 'however', 'but actually', 'correction' in any
\* case.
C20_Flagged(stps) ==
    {i \in 1..Len(stps) :
        \/ Contains(lower(stps[i]), <<"h", "o", "w", "e", "v", "e", "r">>)
        \/ Contains(lower(stps[i]), <<"b", "u", "t", " ", "a", "c", "t", "u", "a", "l", "l", "y">>)
        \/ Contains(lower(stps[i]), <<"c", "o", "r", "r", "e", "c", "t", "i", "o", "n">>)}

\* The step numbers an issue text names, in the order of the text.
C20_Numbers(text, n) == SelectSeq(text, LAMBDA piece : piece \in {ToString(i) : i \in 1..n})

\* C20: check_contradictions returns 100 with no issue for fewer than 2
\* steps, whatever their text; for 2 or more steps the score is
\* max(0, 100 - 20*k), k being the number of steps that hold 'however',
\* 'but actually' or 'correction' in any case, and the issue lists the
\* 1-based index of each such step in step order.
C20_ContradictionScore ==
    pc = "returned" =>
        LET r == evaluation_results.logical_consistency.contradictions
            flagged == C20_Flagged(steps)
            k == Cardinality(flagged)
        IN  IF Len(steps) < 2 THEN r.score = 100 /\ r.issue = None
            ELSE /\ r.score = (IF 100 - 20 * k < 0 THEN 0 ELSE 100 - 20 * k)
                 /\ (r.issue = None) <=> (k = 0)
                 /\ k > 0 =>
                      LET numbers == C20_Numbers(r.issue.text, Len(steps))
                      IN  /\ Len(numbers) = k
                          /\ \A j \in 1..k :
                                \E i \in flagged :
                                    /\ Cardinality({x \in flagged : x < i}) = j - 1
                                    /\ numbers[j] = ToString(i)

\* Three steps of which the first and the third are flagged.
C20_Witness ==
    /\ pc = "returned"
    /\ Len(steps) = 3
    /\ C20_Flagged(steps) = {1, 3}
    /\ evaluation_results.logical_consistency.contradictions.score = 60

\* The assertive patterns of lines 322-327 a step matches, and the steps
\* that match at least one and hold none of 'because', 'since', 'as'.
C21_Patterns(stp) ==
    LET s == lower(stp)
    IN  {p \in {"it is evident", "we know that", "it must be", "clearly"} :
            \/ p = "it is evident" /\ SearchItIsEvident(s)
            \/ p = "we know that" /\ SearchWord(s, kwWeKnowThat)
            \/ p = "it must be" /\ SearchWord(s, kwItMustBe)
            \/ p = "clearly" /\ SearchWord(s, kwClearly)}

C21_Justified(stp) ==
    \/ Contains(lower(stp), <<"b", "e", "c", "a", "u", "s", "e">>)
    \/ Contains(lower(stp), <<"s", "i", "n", "c", "e">>)
    \/ Contains(lower(stp), <<"a", "s">>)

C21_Counted(stps) ==
    {i \in 1..Len(stps) : C21_Patterns(stps[i]) # {} /\ ~C21_Justified(stps[i])}

C22_VerdictAgreesOnProducibleScores ==
    pc = "returned" =>
        /\ (verdict = "Good Reasoning") <=> (overall_score >= 100 * GOOD_REASONING_THRESHOLD)
        /\ ~(verdict = "Flawed Reasoning" /\ overall_score >= 100 * GOOD_REASONING_THRESHOLD)

\* Rule scores whose weighted sum is exactly 70 have been scored.
C22_Witness ==
    /\ pc = "returned"
    /\ scores = ScoreSet(7500, 9500, 10000, 10000)
    /\ ExactWeightedSum(scores) = 10000 * GOOD_REASONING_THRESHOLD
    /\ verdict = "Good Reasoning"
    /\ overall_score = 7000

\* The scores of the eleven rules of an evaluation.
C23_RuleScores(results) ==
    {results[Categories[j]][RuleNames[Categories[j]][i]].score :
        j \in 1..Len(Categories), i \in 1..2}
    \cup {results.logical_consistency[RuleNames.logical_consistency[i]].score : i \in 1..4}
    \cup {results.completeness[RuleNames.completeness[i]].score : i \in 1..3}

C24_BlankText(r) == \A i \in 1..Len(r) : r[i] \in Whitespace

\* C24: split_reasoning_steps returns the empty sequence if and only if the
\* reasoning is empty or whitespace-only; it returns a one-element sequence
\* only through the final fallback, no strategy having two segments, and
\* that element is the whole reasoning trimmed.
C24_EmptyIffBlankAndSingleIsFallback ==
    pc = "returned" =>
        /\ (steps = <<>>) <=> C24_BlankText(reasoning)
        /\ Len(steps) = 1 =>
              /\ C5_Accepted(reasoning) = {}
              /\ steps[1] = strip(reasoning)

\* The final fallback has returned one step, the reasoning less the
\* whitespace about it, although a list item was found.
C24_Witness ==
    /\ pc = "returned"
    /\ Len(steps) = 1
    /\ steps[1] # reasoning
    /\ Len(ListFindAll("numbered", reasoning, 1)) = 1

\* C25: starting from no log file, after any interleaving of n log_evaluation
\* calls, concurrent ones included, the log holds exactly one header row
\* followed by n data rows, one for each call: no record is lost or
\* overwritten and no second header is written.  log_evaluation does not
\* have this property: two calls that both find no file both write it with
\* mode 'w', and the later write replaces the file of the earlier.
C25_OneHeaderAndOneRowPerCall ==
    (writers # <<>> /\ \A t \in DOMAIN writers : writers[t].pc = "returned") =>
        /\ Len(log) = Len(writers) + 1
        /\ log[1] = HeaderRow
        /\ \A i \in 2..Len(log) : log[i] # HeaderRow
        /\ \A t \in DOMAIN writers :
              Cardinality({i \in 2..Len(log) : log[i] = log_row(writers[t].data)}) = 1

====
